---- MODULE Spec2Model ----
(***************************************************************************)
(* Model of the agent-semantic-protocol engine: the trust ledger, the     *)
(* discovery registry, the default negotiation handler and the libp2p     *)
(* host (handshake, intent exchange, capability announcement).            *)
(*                                                                         *)
(* Conventions                                                             *)
(*   - a Go string is a sequence of tokens (a token is a piece of text     *)
(*     that the code never looks inside); concatenation is \o;             *)
(*   - a float32 is a record [nan, v]: v counts hundredths, nan marks the  *)
(*     IEEE-754 not-a-number, for which every ordered comparison is false; *)
(*   - a Go map is a function whose DOMAIN is the set of keys written;     *)
(*   - a byte slice holding a key, nonce or signature is a token or a      *)
(*     tuple; the empty slice is <<>>.                                     *)
(***************************************************************************)
EXTENDS Integers, Sequences, FiniteSets, TLC

VARIABLES
    scores,     \* TrustGraph.scores of the stand-alone ledger
    got,        \* value returned by the last TrustGraph.Get
    nops,       \* number of ledger operations performed so far
    entries,    \* DiscoveryRegistry.entries of the stand-alone registry
    now,        \* time.Now(), in seconds
    found,      \* value returned by the last registry query or Evict
    handled,    \* last call of the default negotiation handler: its inputs and response
    known,      \* AgentHost.known of each host: transport peer -> AgentProfile
    discovery,  \* AgentHost.discovery of each host: the entries of its registry
    trust,      \* AgentHost.trust of each host: the scores of its ledger
    onHandshake,\* AgentHost.onHandshake of each host
    onIntent,   \* AgentHost.onIntent of each host
    streams,    \* every stream opened so far, in the order of opening
    invoked,    \* intent callbacks and default handlers run so far
    lastCall,   \* last call of CreateIntent or of a Verify function: inputs and result
    wire,       \* last call of the codec or of a frame function: inputs and result
    handlers,   \* NegotiationBus.handlers: agent id -> handler
    registered, \* the Register calls made so far, in order
    busCalls,   \* the Negotiate calls made so far: inputs, position, result
    busInvoked, \* the handler invocations made by the bus so far
    wfPc,       \* position of the RunWorkflow call: idle, running, returned
    wfSteps,    \* RunWorkflow: the argument steps
    stepGo,     \* RunWorkflow: the goroutine of each step: position and outcome
    results,    \* RunWorkflow: the slice results
    firstErr,   \* RunWorkflow: the variable firstErr; <<>> is nil
    wfDone,     \* the step indices in the order in which their results were written
    wfRet,      \* what RunWorkflow returned
    ranking,    \* the last call of RankCandidates: arguments and result
    goroutines, \* the goroutines running host and bus functions: position and locals
    mu,         \* the RWMutex of the host and of the bus
    mem,        \* what the goroutines share: known, callbacks, handler, scores
    audit,      \* the accesses, calls and trust updates made so far
    evictLoop   \* the goroutine of StartEvictionLoop, its ticker and its done channel

trustVars == <<scores, got, nops>>
regVars == <<entries, now, found>>
negVars == <<handled>>
hostVars == <<known, discovery, trust, onHandshake, onIntent, streams, invoked>>
sigVars == <<lastCall>>
codecVars == <<wire>>
busVars == <<handlers, registered, busCalls, busInvoked>>
wfVars == <<wfPc, wfSteps, stepGo, results, firstErr, wfDone, wfRet>>
rankVars == <<ranking>>
concVars == <<goroutines, mu, mem, audit>>
loopVars == <<evictLoop>>

-----------------------------------------------------------------------------
(* Bounds *)

MaxOps == 3          \* ledger operations per behaviour
MaxMag == 150        \* largest magnitude (in hundredths) of a score or delta
MaxTime == 4         \* the clock runs from 1 to MaxTime
MaxCaps == 2         \* longest capability list of an agent or an intent
MaxStreams == 2      \* streams opened per behaviour
MaxPayload == 2      \* bytes of a payload that are written out one by one
MaxBusOps == 3       \* Register and Negotiate calls per behaviour
MaxSteps == 2        \* steps of a workflow
MaxCandidates == 3   \* profiles passed to RankCandidates
MaxGoroutines == 2   \* goroutines that run host and bus functions at once

-----------------------------------------------------------------------------
(* float32 *)

Num(n) == [nan |-> FALSE, v |-> n]
NaN == [nan |-> TRUE, v |-> 0]
Zero32 == Num(0)

\* float32 addition: NaN is absorbing
Add32(a, b) == IF a.nan \/ b.nan THEN NaN ELSE Num(a.v + b.v)
\* ordered comparisons: false whenever an operand is NaN
Lt32(a, b) == ~a.nan /\ ~b.nan /\ a.v < b.v
Gt32(a, b) == ~a.nan /\ ~b.nan /\ a.v > b.v

InUnit(x) == ~x.nan /\ 0 <= x.v /\ x.v <= 100

-----------------------------------------------------------------------------
(* Identifiers (core/did.go) *)

\* Ed25519 public keys (32 bytes each); the private half of a key is held
\* by the one agent that generated the pair
Keys == {"kA", "kB", "kM"}
\* byte slices a peer may present as a public key: a key, a slice of the
\* wrong length, the empty slice
KeyBytes == Keys \cup {"kShort", ""}

\* hex(sha256(b)): one hex string per byte slice (SHA-256 taken as injective)
HashHex(b) ==
    CASE b = "kA" -> "hA" [] b = "kB" -> "hB" [] b = "kM" -> "hM"
      [] b = "kShort" -> "hShort" [] OTHER -> "hEmpty"

\* DID.String of a DID derived from a key: "did:symplex:<hex>"
DIDString(k) == <<"did", ":", "symplex", ":", HashHex(k)>>

\* index of the first ":" of s, 0 when there is none
FirstColon(s) ==
    IF \E i \in DOMAIN s : s[i] = ":"
    THEN CHOOSE i \in DOMAIN s : s[i] = ":" /\ \A j \in 1..(i - 1) : s[j] # ":"
    ELSE 0

ParseDID(s) ==
    IF ~(Len(s) >= 3 /\ s[1] = "did" /\ s[2] = ":")
    THEN [err |-> TRUE, Method |-> <<>>, ID |-> <<>>]
    ELSE LET rest == SubSeq(s, 3, Len(s))
             i == FirstColon(rest)
             method == IF i = 0 THEN <<>> ELSE SubSeq(rest, 1, i - 1)
             id == IF i = 0 THEN <<>> ELSE SubSeq(rest, i + 1, Len(rest))
         IN IF method = <<>> \/ id = <<>>
            THEN [err |-> TRUE, Method |-> <<>>, ID |-> <<>>]
            ELSE [err |-> FALSE, Method |-> method, ID |-> id]

\* DID.ValidateBinding on a parsed DID
ValidateBinding(d, pubKey) == <<HashHex(pubKey)>> = d.ID

\* DIDFromPublicKey fails unless the slice has ed25519.PublicKeySize bytes
DIDFromPublicKeyErr(pubKey) == pubKey \notin Keys

trustKey(from, to) == from \o <<"->">> \o to

-----------------------------------------------------------------------------
(* Trust ledger (core/did.go) *)

clamp(v) ==
    IF Lt32(v, Zero32) THEN Zero32
    ELSE IF Gt32(v, Num(100)) THEN Num(100)
    ELSE v

\* tg.scores[k]: the zero value when k is absent
ScoreAt(sc, k) == IF k \in DOMAIN sc THEN sc[k] ELSE Zero32

MapPut(m, k, x) == [y \in (DOMAIN m) \cup {k} |-> IF y = k THEN x ELSE m[y]]

TrustSet(sc, from, to, score) == MapPut(sc, trustKey(from, to), clamp(score))
TrustGet(sc, from, to) == ScoreAt(sc, trustKey(from, to))
TrustApply(sc, from, to, delta) ==
    MapPut(sc, trustKey(from, to),
           clamp(Add32(ScoreAt(sc, trustKey(from, to)), delta)))

NewTrustGraph == <<>>

LedgerDIDs == {DIDString("kA"), DIDString("kB")}
F32Inputs == {Num(-MaxMag), Num(-2), Num(5), Num(60), Num(MaxMag), NaN}

TrustInit ==
    /\ scores = NewTrustGraph
    /\ got = [key |-> <<>>, val |-> Zero32, called |-> FALSE, absent |-> TRUE]
    /\ nops = 0

Set(from, to, score) ==
    /\ nops < MaxOps
    /\ scores' = TrustSet(scores, from, to, score)
    /\ nops' = nops + 1
    /\ UNCHANGED got

Apply(from, to, delta) ==
    /\ nops < MaxOps
    /\ scores' = TrustApply(scores, from, to, delta)
    /\ nops' = nops + 1
    /\ UNCHANGED got

Get(from, to) ==
    /\ nops < MaxOps
    /\ got' = [key |-> trustKey(from, to), val |-> TrustGet(scores, from, to),
               called |-> TRUE,
               absent |-> trustKey(from, to) \notin DOMAIN scores]
    /\ nops' = nops + 1
    /\ UNCHANGED scores

TrustNext ==
    \/ \E f \in LedgerDIDs, t \in LedgerDIDs, s \in F32Inputs : Set(f, t, s)
    \/ \E f \in LedgerDIDs, t \in LedgerDIDs, d \in F32Inputs : Apply(f, t, d)
    \/ \E f \in LedgerDIDs, t \in LedgerDIDs : Get(f, t)

-----------------------------------------------------------------------------
(* Discovery registry (core/discovery.go, kept in src/core/handshake.go) *)

\* AgentProfile as the host and the registry build it
\* (EmbeddingVector and PublicKey are never set by them)
AgentProfile(id, did, caps) == [AgentID |-> id, DID |-> did, Capabilities |-> caps]

\* the order in which a Go range statement visits the keys of a map:
\* any enumeration of the key set
RangeOrders(S) ==
    {o \in [1..Cardinality(S) -> S] : \A x \in S : \E i \in DOMAIN o : o[i] = x}

\* time.Time{} (the zero time) is 0; the running clock is always >= 1
ZeroTime == 0

isExpiredLate(e, t) == e.expiresAt # ZeroTime /\ t > e.expiresAt + 1

isExpired(e, t) ==
    IF e.expiresAt = ZeroTime THEN FALSE ELSE t > e.expiresAt

hasAllAnyOf(available, required) ==
    \E i \in DOMAIN required : \E j \in DOMAIN available : available[j] = required[i]

hasAll(available, required) ==
    \A i \in DOMAIN required : \E j \in DOMAIN available : available[j] = required[i]

MapDel(m, k) == [y \in (DOMAIN m) \ {k} |-> m[y]]

RegistryAnnounce(reg, t, profile, ttlSeconds) ==
    MapPut(reg, profile.AgentID,
           [profile |-> profile,
            expiresAt |-> IF ttlSeconds > 0 THEN t + ttlSeconds ELSE ZeroTime])

\* the entries a query does not skip as expired, in the order o of its
\* range loop
LiveIn(reg, t, o) ==
    SelectSeq([i \in DOMAIN o |-> reg[o[i]]], LAMBDA e : ~isExpired(e, t))

ProfilesOf(es) == [i \in DOMAIN es |-> es[i].profile]
ExpiriesOf(es) == [i \in DOMAIN es |-> es[i].expiresAt]

FindByCapabilityIn(reg, t, o, required) ==
    SelectSeq(LiveIn(reg, t, o),
              LAMBDA e : hasAll(e.profile.Capabilities, required))

\* the loop returns at the first live entry with the DID
FindByDIDIn(reg, t, o, did) ==
    LET m == SelectSeq(LiveIn(reg, t, o), LAMBDA e : e.profile.DID = did)
    IN IF Len(m) = 0 THEN <<>> ELSE <<m[1]>>

AllIn(reg, t, o) == LiveIn(reg, t, o)

EvictInZeroToo(reg, t) == [k \in {x \in DOMAIN reg : t <= reg[x].expiresAt} |-> reg[k]]

EvictIn(reg, t) == [k \in {x \in DOMAIN reg : ~isExpired(reg[x], t)} |-> reg[k]]

NewDiscoveryRegistry == <<>>

RegProfiles ==
    { AgentProfile("alpha", DIDString("kA"), <<"nlp">>),
      AgentProfile("alpha", DIDString("kM"), <<"nlp", "code-gen">>),
      AgentProfile("beta", DIDString("kB"), <<"code-gen">>) }
RegTTLs == {-1, 0, 1, 2}
RegQueries == {<<>>, <<"nlp">>, <<"nlp", "code-gen">>}
RegDIDs == {DIDString("kA"), DIDString("kB")}

NoResult == [op |-> "none", at |-> 0, res |-> <<>>, exp |-> <<>>, n |-> 0]

RegInit ==
    /\ entries = NewDiscoveryRegistry
    /\ now = 1
    /\ found = NoResult

Announce(profile, ttlSeconds) ==
    /\ entries' = RegistryAnnounce(entries, now, profile, ttlSeconds)
    /\ UNCHANGED <<now, found>>

\* AnnounceFromMessage copies the three profile fields of the message
AnnounceFromMessage(msg) ==
    /\ entries' = RegistryAnnounce(entries, now,
                      AgentProfile(msg.AgentID, msg.DID, msg.Capabilities), msg.TTL)
    /\ UNCHANGED <<now, found>>

Remove(agentID) ==
    /\ entries' = MapDel(entries, agentID)
    /\ UNCHANGED <<now, found>>

FindByCapability(required) ==
    /\ \E o \in RangeOrders(DOMAIN entries) :
          LET es == FindByCapabilityIn(entries, now, o, required)
          IN found' = [op |-> "FindByCapability", at |-> now, req |-> required,
                       res |-> ProfilesOf(es), exp |-> ExpiriesOf(es), n |-> 0]
    /\ UNCHANGED <<entries, now>>

FindByDID(did) ==
    /\ \E o \in RangeOrders(DOMAIN entries) :
          LET es == FindByDIDIn(entries, now, o, did)
          IN found' = [op |-> "FindByDID", at |-> now,
                       res |-> ProfilesOf(es), exp |-> ExpiriesOf(es), n |-> 0]
    /\ UNCHANGED <<entries, now>>

All ==
    /\ \E o \in RangeOrders(DOMAIN entries) :
          LET es == AllIn(entries, now, o)
          IN found' = [op |-> "All", at |-> now,
                       res |-> ProfilesOf(es), exp |-> ExpiriesOf(es), n |-> 0]
    /\ UNCHANGED <<entries, now>>

Evict ==
    /\ entries' = EvictIn(entries, now)
    /\ found' = [op |-> "Evict", at |-> now, res |-> <<>>, exp |-> <<>>,
                 n |-> Cardinality(DOMAIN entries) - Cardinality(DOMAIN entries')]
    /\ UNCHANGED now

\* the wall clock advances
Tick ==
    /\ now < MaxTime
    /\ now' = now + 1
    /\ UNCHANGED <<entries, found>>

RegNext ==
    \/ \E p \in RegProfiles, ttl \in RegTTLs : Announce(p, ttl)
    \/ \E p \in RegProfiles, ttl \in RegTTLs :
          AnnounceFromMessage([AgentID |-> p.AgentID, DID |-> p.DID,
                               Capabilities |-> p.Capabilities,
                               Timestamp |-> now, TTL |-> ttl])
    \/ \E id \in {"alpha", "beta"} : Remove(id)
    \/ \E req \in RegQueries : FindByCapability(req)
    \/ \E d \in RegDIDs : FindByDID(d)
    \/ All
    \/ Evict
    \/ Tick

-----------------------------------------------------------------------------
(* Signatures (core/did.go) *)

\* ed25519.Sign with the private half of key k
Ed25519Sign(k, data) == <<"sig", k, data>>
\* ed25519.Verify under the public key k (false for a key of the wrong size
\* and for anything that is not the signature of data under k)
Ed25519Verify(k, data, sig) == k \in Keys /\ sig = Ed25519Sign(k, data)

\* core.Agent made by NewAgent: the DID carries both halves of the key pair;
\* hasPriv is false for a DID that holds the public half only
Agent(id, k, caps, hasPriv) ==
    [ID |-> id, key |-> k, DID |-> DIDString(k), Capabilities |-> caps,
     hasPriv |-> hasPriv]

\* id + text of two Go strings, the first of which the model holds as one
\* token: the empty string adds no byte
Concat(id, text) == (IF id = "" THEN <<>> ELSE <<id>>) \o text

\* DID.Sign: ErrNoPrivateKey without the private key
DIDSign(agent, data) ==
    IF agent.hasPriv THEN [err |-> FALSE, sig |-> Ed25519Sign(agent.key, data)]
    ELSE [err |-> TRUE, sig |-> <<>>]

-----------------------------------------------------------------------------
(* Default negotiation handler (core/negotiation.go) *)

missingCapabilitiesFirstOnly(required, available) ==
    SelectSeq(SubSeq(required, 1, IF Len(required) > 0 THEN 1 ELSE 0),
              LAMBDA c : \A j \in DOMAIN available : available[j] # c)

missingCapabilities(required, available) ==
    SelectSeq(required, LAMBDA c : \A j \in DOMAIN available : available[j] # c)

buildWorkflowNoReturn(intent) ==
    <<<<"parse_intent:", intent.ID>>>>
      \o [i \in DOMAIN intent.Capabilities |-> <<"execute:", intent.Capabilities[i]>>]

buildWorkflow(intent) ==
    <<<<"parse_intent:", intent.ID>>>>
      \o [i \in DOMAIN intent.Capabilities |-> <<"execute:", intent.Capabilities[i]>>]
      \o <<<<"return_result:", intent.ID>>>>

reflectVector(v) ==
    [i \in DOMAIN v |-> IF v[i].nan THEN NaN ELSE Num(-v[i].v)]

trustDeltaAlwaysAccept(accepted) == Num(5)

trustDelta(accepted) == IF accepted THEN Num(5) ELSE Num(-2)

\* fmt.Sprintf("%v", ss) of a []string: "[a b c]"
RECURSIVE JoinSpace(_)
JoinSpace(ss) ==
    IF Len(ss) = 0 THEN <<>>
    ELSE IF Len(ss) = 1 THEN <<ss[1]>>
    ELSE <<ss[1], " ">> \o JoinSpace(Tail(ss))
FormatV(ss) == <<"[">> \o JoinSpace(ss) \o <<"]">>

DefaultNegotiationHandlerSignsID(agent, intent, t) ==
    LET missing == missingCapabilities(intent.Capabilities, agent.Capabilities)
        accepted == Len(missing) = 0
        reason == IF ~accepted THEN <<"missing capabilities: ">> \o FormatV(missing)
                  ELSE <<"all capabilities available">>
        steps == IF accepted THEN buildWorkflow(intent) ELSE <<>>
        signed == DIDSign(agent, <<intent.ID>>)
    IN [RequestID |-> intent.ID,
        AgentID |-> agent.ID,
        Accepted |-> accepted,
        WorkflowSteps |-> steps,
        DID |-> agent.DID,
        ResponseVector |-> reflectVector(intent.IntentVector),
        Timestamp |-> t,
        Reason |-> reason,
        TrustDelta |-> trustDelta(accepted),
        Signature |-> IF signed.err THEN <<>> ELSE signed.sig]

DefaultNegotiationHandler(agent, intent, t) ==
    LET missing == missingCapabilities(intent.Capabilities, agent.Capabilities)
        accepted == Len(missing) = 0
        reason == IF ~accepted THEN <<"missing capabilities: ">> \o FormatV(missing)
                  ELSE <<"all capabilities available">>
        steps == IF accepted THEN buildWorkflow(intent) ELSE <<>>
        signed == DIDSign(agent, Concat(intent.ID, reason))
    IN [RequestID |-> intent.ID,
        AgentID |-> agent.ID,
        Accepted |-> accepted,
        WorkflowSteps |-> steps,
        DID |-> agent.DID,
        ResponseVector |-> reflectVector(intent.IntentVector),
        Timestamp |-> t,
        Reason |-> reason,
        TrustDelta |-> trustDelta(accepted),
        Signature |-> IF signed.err THEN <<>> ELSE signed.sig]

\* randomID: 16 bytes of crypto/rand in hex; src is what rand.Read does
randomID(src) ==
    IF src = "fail" THEN [err |-> TRUE, id |-> ""] ELSE [err |-> FALSE, id |-> src]

CreateIntentUnsigned(sender, id, intentVector, requiredCapabilities, payload, t) ==
    LET signed == DIDSign(sender, <<id>> \o payload)
    IN [err |-> FALSE,
        intent |-> [ID |-> id, IntentVector |-> intentVector,
                    Capabilities |-> requiredCapabilities,
                    DID |-> sender.DID, Payload |-> payload,
                    Timestamp |-> t, TrustScore |-> Num(50),
                    Metadata |-> [protocol |-> "1.0.0"],
                    Signature |-> IF signed.err THEN <<>> ELSE signed.sig]]

\* CreateIntent with the id the random source produced; err when signing fails
CreateIntent(sender, id, intentVector, requiredCapabilities, payload, t) ==
    LET signed == DIDSign(sender, <<id>> \o payload)
    IN IF signed.err THEN [err |-> TRUE, intent |-> <<>>]
       ELSE [err |-> FALSE,
             intent |-> [ID |-> id, IntentVector |-> intentVector,
                         Capabilities |-> requiredCapabilities,
                         DID |-> sender.DID, Payload |-> payload,
                         Timestamp |-> t, TrustScore |-> Num(50),
                         Metadata |-> [protocol |-> "1.0.0"],
                         Signature |-> signed.sig]]

VerifyIntentSignaturePayloadOnly(intent, pubKey) ==
    IF Len(intent.Signature) = 0 THEN TRUE
    ELSE IF DIDFromPublicKeyErr(pubKey) THEN FALSE
    ELSE Ed25519Verify(pubKey, intent.Payload, intent.Signature)

\* VerifyIntentSignature: an empty signature passes
VerifyIntentSignature(intent, pubKey) ==
    IF Len(intent.Signature) = 0 THEN TRUE
    ELSE IF DIDFromPublicKeyErr(pubKey) THEN FALSE
    ELSE Ed25519Verify(pubKey, Concat(intent.ID, intent.Payload), intent.Signature)

\* VerifyResponseSignature: an empty signature passes
VerifyResponseSignature(resp, pubKey) ==
    IF Len(resp.Signature) = 0 THEN TRUE
    ELSE IF DIDFromPublicKeyErr(pubKey) THEN FALSE
    ELSE Ed25519Verify(pubKey, Concat(resp.RequestID, resp.Reason), resp.Signature)

CapTags == {"nlp", "code-gen", "summarisation"}
CapLists == UNION {[1..n -> CapTags] : n \in 0..MaxCaps}
IntentIDs == {"id1", "id2"}
Vectors == {<<>>, <<Num(50), Num(-10)>>}

\* an IntentMessage as a peer may present it to the handler
IntentMessage(id, vec, caps, did, payload, t, sig) ==
    [ID |-> id, IntentVector |-> vec, Capabilities |-> caps, DID |-> did,
     Payload |-> payload, Timestamp |-> t, TrustScore |-> Num(50),
     Metadata |-> [protocol |-> "1.0.0"], Signature |-> sig]

NegInit == handled = [called |-> FALSE]

\* one call h(intent) of the handler DefaultNegotiationHandler(agent) returns
HandleIntent(agent, intent) ==
    /\ ~handled.called
    /\ handled' = [called |-> TRUE, agent |-> agent, intent |-> intent,
                   resp |-> DefaultNegotiationHandler(agent, intent, now)]

NegNext ==
    \E caps \in CapLists, hasPriv \in BOOLEAN, id \in IntentIDs,
       vec \in Vectors, req \in CapLists :
        HandleIntent(Agent("beta", "kB", caps, hasPriv),
                     IntentMessage(id, vec, req, DIDString("kA"), <<"original">>,
                                   now, <<>>))

-----------------------------------------------------------------------------
(* Messages and wire codec (core/types.go, core/encoding.go) *)

MsgHandshake == 1
MsgIntent == 2
MsgNegotiation == 3
MsgWorkflow == 4
MsgCapability == 5

HandshakeMessage(id, did, caps, t, pubKey, challenge, response) ==
    [AgentID |-> id, DID |-> did, Capabilities |-> caps, Version |-> "1.0.0",
     Timestamp |-> t, PublicKey |-> pubKey, Challenge |-> challenge,
     ChallengeResponse |-> response]

NegotiationResponse(reqID, agentID, accepted, steps, did, vec, t, reason, delta, sig) ==
    [RequestID |-> reqID, AgentID |-> agentID, Accepted |-> accepted,
     WorkflowSteps |-> steps, DID |-> did, ResponseVector |-> vec,
     Timestamp |-> t, Reason |-> reason, TrustDelta |-> delta, Signature |-> sig]

WorkflowMessage(workflowID, stepID, nextStepID, agentID, did, action, params, resultChan, t) ==
    [WorkflowID |-> workflowID, StepID |-> stepID, NextStepID |-> nextStepID,
     AgentID |-> agentID, DID |-> did, Action |-> action, Params |-> params,
     ResultChan |-> resultChan, Timestamp |-> t]

CapabilityAnnouncement(id, did, caps, t, ttl) ==
    [AgentID |-> id, DID |-> did, Capabilities |-> caps, Timestamp |-> t,
     TTL |-> ttl]

\* An encoded message is the sequence of its fields, each a field number
\* with a value; the enc methods append a field unless the value is the
\* default of its type.  A one-token string is empty when it is "", a
\* string of several tokens or a byte slice when it is <<>>.
Field(n, v) == [num |-> n, val |-> v]
encStr(n, x) == IF x = "" THEN <<>> ELSE <<Field(n, x)>>
encText(n, x) == IF Len(x) = 0 THEN <<>> ELSE <<Field(n, x)>>
encI64(n, v) == IF v = 0 THEN <<>> ELSE <<Field(n, v)>>
encF32(n, v) == IF ~v.nan /\ v.v = 0 THEN <<>> ELSE <<Field(n, v)>>
encBoolean(n, v) == IF ~v THEN <<>> ELSE <<Field(n, TRUE)>>
encStrs(n, ss) == [i \in DOMAIN ss |-> Field(n, ss[i])]
encPackedF32(n, fs) == IF Len(fs) = 0 THEN <<>> ELSE <<Field(n, fs)>>
\* one nested entry per key, in the order of the range over the map
encStrMap(n, m) ==
    LET o == CHOOSE x \in RangeOrders(DOMAIN m) : TRUE
    IN [i \in DOMAIN o |-> Field(n, [key |-> o[i], val |-> m[o[i]]])]

\* a decoder keeps the last value of a scalar field, appends the values of a
\* repeated field, and skips the field numbers it does not know
decLast(w, n, default) ==
    LET idx == {i \in DOMAIN w : w[i].num = n}
    IN IF idx = {} THEN default
       ELSE w[CHOOSE i \in idx : \A j \in idx : j <= i].val
decRepeated(w, n) ==
    LET f == SelectSeq(w, LAMBDA e : e.num = n)
    IN [i \in DOMAIN f |-> f[i].val]
decStrMap(w, n) ==
    LET f == decRepeated(w, n)
        ks == {f[i].key : i \in DOMAIN f}
    IN [k \in ks |->
          f[CHOOSE i \in DOMAIN f : f[i].key = k /\ \A j \in DOMAIN f : f[j].key = k => j <= i].val]

EncodeIntentMessage(m) ==
    encStr(1, m.ID) \o encPackedF32(2, m.IntentVector) \o encStrs(3, m.Capabilities)
      \o encText(4, m.DID) \o encText(5, m.Payload) \o encI64(6, m.Timestamp)
      \o encF32(7, m.TrustScore) \o encStrMap(8, m.Metadata)

DecodeIntentMessage(w) ==
    [ID |-> decLast(w, 1, ""), IntentVector |-> decLast(w, 2, <<>>),
     Capabilities |-> decRepeated(w, 3), DID |-> decLast(w, 4, <<>>),
     Payload |-> decLast(w, 5, <<>>), Timestamp |-> decLast(w, 6, 0),
     TrustScore |-> decLast(w, 7, Zero32), Metadata |-> decStrMap(w, 8),
     Signature |-> <<>>]

EncodeHandshakeMessage(m) ==
    encStr(1, m.AgentID) \o encText(2, m.DID) \o encStrs(3, m.Capabilities)
      \o encStr(4, m.Version) \o encI64(5, m.Timestamp) \o encStr(6, m.PublicKey)
      \o encText(7, m.Challenge) \o encText(8, m.ChallengeResponse)

DecodeHandshakeMessage(w) ==
    [AgentID |-> decLast(w, 1, ""), DID |-> decLast(w, 2, <<>>),
     Capabilities |-> decRepeated(w, 3), Version |-> decLast(w, 4, ""),
     Timestamp |-> decLast(w, 5, 0), PublicKey |-> decLast(w, 6, ""),
     Challenge |-> decLast(w, 7, <<>>), ChallengeResponse |-> decLast(w, 8, <<>>)]

EncodeNegotiationResponse(m) ==
    encStr(1, m.RequestID) \o encStr(2, m.AgentID) \o encBoolean(3, m.Accepted)
      \o encStrs(4, m.WorkflowSteps) \o encText(5, m.DID)
      \o encPackedF32(6, m.ResponseVector) \o encI64(7, m.Timestamp)
      \o encText(8, m.Reason) \o encF32(9, m.TrustDelta)

DecodeNegotiationResponse(w) ==
    [RequestID |-> decLast(w, 1, ""), AgentID |-> decLast(w, 2, ""),
     Accepted |-> decLast(w, 3, FALSE), WorkflowSteps |-> decRepeated(w, 4),
     DID |-> decLast(w, 5, <<>>), ResponseVector |-> decLast(w, 6, <<>>),
     Timestamp |-> decLast(w, 7, 0), Reason |-> decLast(w, 8, <<>>),
     TrustDelta |-> decLast(w, 9, Zero32), Signature |-> <<>>]

EncodeCapabilityAnnouncement(m) ==
    encStr(1, m.AgentID) \o encText(2, m.DID) \o encStrs(3, m.Capabilities)
      \o encI64(4, m.Timestamp) \o encI64(5, m.TTL)

DecodeCapabilityAnnouncement(w) ==
    [AgentID |-> decLast(w, 1, ""), DID |-> decLast(w, 2, <<>>),
     Capabilities |-> decRepeated(w, 3), Timestamp |-> decLast(w, 4, 0),
     TTL |-> decLast(w, 5, 0)]

EncodeWorkflowMessage(m) ==
    encStr(1, m.WorkflowID) \o encStr(2, m.StepID) \o encStr(3, m.NextStepID)
      \o encStr(4, m.AgentID) \o encText(5, m.DID) \o encStr(6, m.Action)
      \o encStrMap(7, m.Params) \o encStr(8, m.ResultChan) \o encI64(9, m.Timestamp)

\* Encode of the message type
EncodeOf(type, m) ==
    CASE type = MsgHandshake -> EncodeHandshakeMessage(m)
      [] type = MsgIntent -> EncodeIntentMessage(m)
      [] type = MsgNegotiation -> EncodeNegotiationResponse(m)
      [] type = MsgWorkflow -> EncodeWorkflowMessage(m)
      [] type = MsgCapability -> EncodeCapabilityAnnouncement(m)

\* Decode: dispatch on the message type; the default branch is an error
Decode(msgType, data) ==
    CASE msgType = MsgHandshake -> [err |-> FALSE, msg |-> DecodeHandshakeMessage(data)]
      [] msgType = MsgIntent -> [err |-> FALSE, msg |-> DecodeIntentMessage(data)]
      [] msgType = MsgNegotiation -> [err |-> FALSE, msg |-> DecodeNegotiationResponse(data)]
      [] OTHER -> [err |-> TRUE, msg |-> <<>>]

(* ---- framing: byte strings ---- *)

\* A length is a record [q, r] that stands for q * 65536 + r, 0 <= r < 65536,
\* so that lengths of 2^32 and more are within reach.
Wide(q, r) == [q |-> q + r \div 65536, r |-> r % 65536]
WideOf(n) == Wide(0, n)
WAdd(a, b) == Wide(a.q + b.q, a.r + b.r)
WLess(a, b) == a.q < b.q \/ (a.q = b.q /\ a.r < b.r)
\* a - b for a >= b
WSub(a, b) ==
    IF a.r >= b.r THEN [q |-> a.q - b.q, r |-> a.r - b.r]
    ELSE [q |-> a.q - b.q - 1, r |-> a.r + 65536 - b.r]
WMax(a, b) == IF WLess(a, b) THEN b ELSE a

\* A byte string is the bytes of head followed by fill bytes of value 0;
\* a byte is a number in 0..255.
ByteString(head, fill) == [head |-> head, fill |-> fill]
NoBytes == ByteString(<<>>, WideOf(0))
BLen(b) == WAdd(WideOf(Len(b.head)), b.fill)
\* b[i] of Go for a small index i < len(b)
ByteAt(b, i) == IF i < Len(b.head) THEN b.head[i + 1] ELSE 0
\* b[lo:hi] of Go for 0 <= lo <= hi <= len(b), lo small
Slice(b, lo, hi) ==
    LET n == WideOf(Len(b.head))
        last == IF WLess(hi, n) THEN hi.r ELSE Len(b.head)
    IN ByteString(IF lo < last THEN SubSeq(b.head, lo + 1, last) ELSE <<>>,
                  IF WLess(n, hi) THEN WSub(hi, WMax(n, WideOf(lo))) ELSE WideOf(0))

\* uint32(v) of a non-negative int v
Uint32Of(v) == [q |-> v.q % 65536, r |-> v.r]
\* binary.BigEndian.PutUint32 and binary.BigEndian.Uint32
PutUint32(v) == <<v.q \div 256, v.q % 256, v.r \div 256, v.r % 256>>
Uint32(b) ==
    [q |-> ByteAt(b, 0) * 256 + ByteAt(b, 1), r |-> ByteAt(b, 2) * 256 + ByteAt(b, 3)]

\* the largest body readMsg takes: 4 MiB
MaxFrameBytes == Wide(64, 0)

FrameNoTypeByte(msgType, payload) ==
    LET total == BLen(payload)
    IN ByteString(PutUint32(Uint32Of(total)) \o <<msgType>> \o payload.head,
                  payload.fill)

\* Frame: 4 bytes of length, the type byte, the payload
Frame(msgType, payload) ==
    LET total == WAdd(WideOf(1), BLen(payload))
    IN ByteString(PutUint32(Uint32Of(total)) \o <<msgType>> \o payload.head,
                  payload.fill)

\* the outcome of a frame decoder: the values returned with a nil error,
\* an error, or a run-time panic
Decoded(msgType, payload) == [kind |-> "ok", type |-> msgType, payload |-> payload]
DecodeError == [kind |-> "err", type |-> 0, payload |-> NoBytes]
DecodePanic == [kind |-> "panic", type |-> 0, payload |-> NoBytes]

\* Unframe; frame[5 : 4+total] panics when 4 + total < 5
Unframe(frame) ==
    IF WLess(BLen(frame), WideOf(5)) THEN DecodeError
    ELSE LET total == Uint32(Slice(frame, 0, WideOf(4)))
             high == WAdd(WideOf(4), total)
         IN IF WLess(BLen(frame), high) THEN DecodeError
            ELSE IF WLess(high, WideOf(5)) THEN DecodePanic
            ELSE Decoded(ByteAt(frame, 4), Slice(frame, 5, high))

\* readMsg on a reader that yields the bytes r and then EOF
readMsg(r) ==
    IF WLess(BLen(r), WideOf(4)) THEN DecodeError
    ELSE LET n == Uint32(Slice(r, 0, WideOf(4)))
             end == WAdd(WideOf(4), n)
         IN IF WLess(n, WideOf(1)) \/ WLess(MaxFrameBytes, n) THEN DecodeError
            ELSE IF WLess(BLen(r), end) THEN DecodeError
            ELSE Decoded(ByteAt(r, 4), Slice(r, 5, end))

\* what readMsg returns for the frame writeMsg made of an encoded message:
\* the type byte and the payload; ok is false for a payload that the
\* decoder of the type rejects (a truncated field, a bad tag)
FrameOf(type, payload) == [type |-> type, ok |-> TRUE, payload |-> payload]
GarbageFrame(type) == [type |-> type, ok |-> FALSE, payload |-> <<>>]
\* nothing to read: the peer closed the stream without writing
NoFrame == [type |-> 0, ok |-> FALSE, payload |-> <<>>]

-----------------------------------------------------------------------------
(* Handshake engine (core/handshake.go) *)

\* the 32 random bytes drawn for the n-th challenge of a behaviour
Nonce(n) == <<"nonce", ToString(n)>>

StartHandshake(agent, nonce, t) ==
    HandshakeMessage(agent.ID, agent.DID, agent.Capabilities, t, agent.key,
                     nonce, <<>>)

RespondHandshake(responder, incoming, nonce, t) ==
    LET peerDID == ParseDID(incoming.DID)
        signed == DIDSign(responder, incoming.Challenge)
    IN IF peerDID.err \/ ~ValidateBinding(peerDID, incoming.PublicKey) \/ signed.err
       THEN [err |-> TRUE, msg |-> <<>>]
       ELSE [err |-> FALSE,
             msg |-> HandshakeMessage(responder.ID, responder.DID,
                         responder.Capabilities, t, responder.key, nonce,
                         signed.sig)]

FinishHandshakeAnyChallenge(originalChallenge, response) ==
    LET peerDID == ParseDID(response.DID)
    IN /\ ~peerDID.err
       /\ ValidateBinding(peerDID, response.PublicKey)
       /\ ~DIDFromPublicKeyErr(response.PublicKey)
       /\ \E n \in 0..MaxStreams :
             Ed25519Verify(response.PublicKey, Nonce(n), response.ChallengeResponse)

\* TRUE when FinishHandshake returns nil
FinishHandshake(originalChallenge, response) ==
    LET peerDID == ParseDID(response.DID)
    IN /\ ~peerDID.err
       /\ ValidateBinding(peerDID, response.PublicKey)
       /\ ~DIDFromPublicKeyErr(response.PublicKey)
       /\ Ed25519Verify(response.PublicKey, originalChallenge,
                        response.ChallengeResponse)

-----------------------------------------------------------------------------
(* Host and dispatcher (p2p/host.go, kept in src/unnamed/part_007) *)

\* A and B run AgentHost; M is a transport peer that runs other code: it
\* owns the key kM only, knows every public key, and writes what it likes
Honest == {"A", "B"}
Peers == Honest \cup {"M"}

LocalAgent(h) ==
    IF h = "A" THEN Agent("alpha", "kA", <<"nlp">>, TRUE)
    ELSE Agent("beta", "kB", <<"code-gen", "reasoning">>, TRUE)

\* h.Network().Peers(): the transport keeps every pair of peers connected
NetworkPeers(h) == Peers \ {h}

\* the hosts whose application calls Handshake, SendIntent and
\* AnnounceCapabilities, and the hosts M opens streams to
Callers == {"A"}
Callees == {"B"}

\* behaviours of a registered HandshakeCallback: "accept" answers every
\* handshake by signing the challenge, "reject" returns nil; "none" is the
\* nil callback of a new host
HandshakeCallbacks == {"none", "accept", "reject"}
\* behaviours of a registered IntentCallback: "handler" returns the response
\* of core.DefaultNegotiationHandler, "nil" returns nil
IntentCallbacks == {"none", "handler", "nil"}

Stream(kind, from, to, nonce, sent, req, ret) ==
    [kind |-> kind, from |-> from, to |-> to, nonce |-> nonce, sent |-> sent,
     req |-> req, handled |-> "pending", resp |-> NoFrame, ret |-> ret]

\* NewHost
HostInit ==
    /\ known = [h \in Honest |-> <<>>]
    /\ discovery = [h \in Honest |-> NewDiscoveryRegistry]
    /\ trust = [h \in Honest |-> NewTrustGraph]
    /\ onHandshake = [h \in Honest |-> "none"]
    /\ onIntent = [h \in Honest |-> "none"]
    /\ streams = <<>>
    /\ invoked = {}

OnHandshake(h, fn) ==
    /\ onHandshake[h] # fn
    /\ onHandshake' = [onHandshake EXCEPT ![h] = fn]
    /\ UNCHANGED <<known, discovery, trust, onIntent, streams, invoked>>

OnIntent(h, fn) ==
    /\ onIntent[h] # fn
    /\ onIntent' = [onIntent EXCEPT ![h] = fn]
    /\ UNCHANGED <<known, discovery, trust, onHandshake, streams, invoked>>

CachePeerExpiring(h, peer, msg) ==
    LET profile == AgentProfile(msg.AgentID, msg.DID, msg.Capabilities)
    IN /\ known' = [known EXCEPT ![h] = MapPut(known[h], peer, profile)]
       /\ discovery' = [discovery EXCEPT
                           ![h] = RegistryAnnounce(discovery[h], now, profile,
                                                   300)]

\* ah.known[peer] = profile, then ah.discovery.Announce(ah.known[peer], 0)
CachePeer(h, peer, msg) ==
    LET profile == AgentProfile(msg.AgentID, msg.DID, msg.Capabilities)
    IN /\ known' = [known EXCEPT ![h] = MapPut(known[h], peer, profile)]
       /\ discovery' = [discovery EXCEPT
                           ![h] = RegistryAnnounce(discovery[h], now, profile, 0)]

(* ---- outgoing: Handshake ---- *)

\* Handshake up to the read of the reply: open the stream, write H1
HandshakeOpen(h, p) ==
    /\ h # p
    /\ Len(streams) < MaxStreams
    /\ LET nonce == Nonce(Len(streams) + 1)
           ours == StartHandshake(LocalAgent(h), nonce, now)
       IN streams' = Append(streams,
              Stream("handshake", h, p, nonce, ours,
                     FrameOf(MsgHandshake, EncodeHandshakeMessage(ours)), "pending"))
    /\ UNCHANGED <<known, discovery, trust, onHandshake, onIntent, invoked>>

\* TRUE when Handshake returns the reply without error
HandshakeAccepts(st) ==
    /\ st.handled = "replied"
    /\ st.resp.type = MsgHandshake
    /\ st.resp.ok
    /\ LET resp == DecodeHandshakeMessage(st.resp.payload)
       IN Len(resp.ChallengeResponse) > 0 => FinishHandshake(st.nonce, resp)

HandshakeReturnCachesFirst(h, sid) ==
    /\ streams[sid].kind = "handshake" /\ streams[sid].from = h
    /\ streams[sid].ret = "pending"
    /\ IF streams[sid].handled = "replied" /\ streams[sid].resp.ok
       THEN /\ CachePeer(h, streams[sid].to,
                         DecodeHandshakeMessage(streams[sid].resp.payload))
            /\ streams' = [streams EXCEPT
                  ![sid].ret = IF HandshakeAccepts(streams[sid]) THEN "ok" ELSE "err"]
       ELSE /\ streams' = [streams EXCEPT ![sid].ret = "err"]
            /\ UNCHANGED <<known, discovery>>
    /\ UNCHANGED <<trust, onHandshake, onIntent, invoked>>

\* Handshake from the read of the reply to its return; the read fails when
\* the peer closed the stream or the deadline of ctx passed
HandshakeReturn(h, sid) ==
    /\ streams[sid].kind = "handshake" /\ streams[sid].from = h
    /\ streams[sid].ret = "pending"
    /\ IF HandshakeAccepts(streams[sid])
       THEN /\ CachePeer(h, streams[sid].to,
                         DecodeHandshakeMessage(streams[sid].resp.payload))
            /\ streams' = [streams EXCEPT ![sid].ret = "ok"]
       ELSE /\ streams' = [streams EXCEPT ![sid].ret = "err"]
            /\ UNCHANGED <<known, discovery>>
    /\ UNCHANGED <<trust, onHandshake, onIntent, invoked>>

(* ---- outgoing: SendIntent ---- *)

SendIntentOpen(h, p, intent) ==
    /\ h # p
    /\ Len(streams) < MaxStreams
    /\ streams' = Append(streams,
           Stream("intent", h, p, <<>>, intent,
                  FrameOf(MsgIntent, EncodeIntentMessage(intent)), "pending"))
    /\ UNCHANGED <<known, discovery, trust, onHandshake, onIntent, invoked>>

SendIntentAccepts(st) ==
    /\ st.handled = "replied"
    /\ st.resp.type = MsgNegotiation
    /\ st.resp.ok

SendIntentReturnNoApply(h, sid) ==
    /\ streams[sid].kind = "intent" /\ streams[sid].from = h
    /\ streams[sid].ret = "pending"
    /\ streams' = [streams EXCEPT
                      ![sid].ret = IF SendIntentAccepts(streams[sid])
                                   THEN "ok" ELSE "err"]
    /\ UNCHANGED <<known, discovery, trust, onHandshake, onIntent, invoked>>

\* SendIntent from the read of the reply to its return
SendIntentReturn(h, sid) ==
    /\ streams[sid].kind = "intent" /\ streams[sid].from = h
    /\ streams[sid].ret = "pending"
    /\ IF SendIntentAccepts(streams[sid])
       THEN LET resp == DecodeNegotiationResponse(streams[sid].resp.payload)
            IN /\ trust' = [trust EXCEPT
                               ![h] = TrustApply(trust[h], LocalAgent(h).DID,
                                                 resp.DID, resp.TrustDelta)]
               /\ streams' = [streams EXCEPT ![sid].ret = "ok"]
       ELSE /\ streams' = [streams EXCEPT ![sid].ret = "err"]
            /\ UNCHANGED trust
    /\ UNCHANGED <<known, discovery, onHandshake, onIntent, invoked>>

(* ---- outgoing: AnnounceCapabilities ---- *)

BuildAnnouncement(agent, ttlSeconds, t) ==
    CapabilityAnnouncement(agent.ID, agent.DID, agent.Capabilities, t, ttlSeconds)

AnnouncementTTL == 300

\* one goroutine per connected peer opens a stream and writes the frame
AnnounceCapabilities(h) ==
    /\ Len(streams) + Cardinality(NetworkPeers(h)) <= MaxStreams
    /\ LET ann == BuildAnnouncement(LocalAgent(h), AnnouncementTTL, now)
       IN \E o \in RangeOrders(NetworkPeers(h)) :
             streams' = streams \o
                 [i \in DOMAIN o |->
                     Stream("capability", h, o[i], <<>>, ann,
                            FrameOf(MsgCapability, EncodeCapabilityAnnouncement(ann)),
                            "none")]
    /\ UNCHANGED <<known, discovery, trust, onHandshake, onIntent, invoked>>

(* ---- incoming: handleStream ---- *)

\* the message a HandshakeCallback returns; <<>> stands for nil
HandshakeCallbackResult(h, incoming, nonce) ==
    IF onHandshake[h] = "accept"
    THEN <<HandshakeMessage(LocalAgent(h).ID, LocalAgent(h).DID,
                            LocalAgent(h).Capabilities, now, LocalAgent(h).key,
                            nonce, Ed25519Sign(LocalAgent(h).key, incoming.Challenge))>>
    ELSE <<>>

handleIncomingHandshake(h, sid) ==
    LET st == streams[sid]
        incoming == DecodeHandshakeMessage(st.req.payload)
        nonce == Nonce(sid) \o <<"r">>
        cbResp == HandshakeCallbackResult(h, incoming, nonce)
        default == RespondHandshake(LocalAgent(h), incoming, nonce, now)
    IN IF ~st.req.ok \/ (cbResp = <<>> /\ default.err)
       THEN /\ streams' = [streams EXCEPT ![sid].handled = "dropped"]
            /\ UNCHANGED <<known, discovery, trust, invoked>>
       ELSE LET resp == IF cbResp # <<>> THEN cbResp[1] ELSE default.msg
            IN /\ streams' = [streams EXCEPT
                     ![sid].handled = "replied",
                     ![sid].resp = FrameOf(MsgHandshake, EncodeHandshakeMessage(resp))]
               /\ CachePeer(h, st.from, incoming)
               /\ UNCHANGED <<trust, invoked>>

handleIncomingIntentTrustsResponder(h, sid) ==
    LET st == streams[sid]
        intent == DecodeIntentMessage(st.req.payload)
        resp == DefaultNegotiationHandler(LocalAgent(h), intent, now)
    IN IF ~st.req.ok
       THEN /\ streams' = [streams EXCEPT ![sid].handled = "dropped"]
            /\ UNCHANGED <<known, discovery, trust, invoked>>
       ELSE /\ invoked' = invoked
                  \cup (IF onIntent[h] # "none"
                        THEN {[host |-> h, sid |-> sid, by |-> "callback",
                               knownSender |-> st.from \in DOMAIN known[h]]}
                        ELSE {})
                  \cup (IF onIntent[h] # "handler"
                        THEN {[host |-> h, sid |-> sid, by |-> "default",
                               knownSender |-> st.from \in DOMAIN known[h]]}
                        ELSE {})
            /\ streams' = [streams EXCEPT
                     ![sid].handled = "replied",
                     ![sid].resp = FrameOf(MsgNegotiation, EncodeNegotiationResponse(resp))]
            /\ trust' = [trust EXCEPT
                            ![h] = TrustApply(trust[h], LocalAgent(h).DID,
                                              resp.DID, resp.TrustDelta)]
            /\ UNCHANGED <<known, discovery>>

handleIncomingIntent(h, sid) ==
    LET st == streams[sid]
        intent == DecodeIntentMessage(st.req.payload)
        resp == DefaultNegotiationHandler(LocalAgent(h), intent, now)
    IN IF ~st.req.ok
       THEN /\ streams' = [streams EXCEPT ![sid].handled = "dropped"]
            /\ UNCHANGED <<known, discovery, trust, invoked>>
       ELSE /\ invoked' = invoked
                  \cup (IF onIntent[h] # "none"
                        THEN {[host |-> h, sid |-> sid, by |-> "callback",
                               knownSender |-> st.from \in DOMAIN known[h]]}
                        ELSE {})
                  \cup (IF onIntent[h] # "handler"
                        THEN {[host |-> h, sid |-> sid, by |-> "default",
                               knownSender |-> st.from \in DOMAIN known[h]]}
                        ELSE {})
            /\ streams' = [streams EXCEPT
                     ![sid].handled = "replied",
                     ![sid].resp = FrameOf(MsgNegotiation, EncodeNegotiationResponse(resp))]
            /\ trust' = [trust EXCEPT
                            ![h] = TrustApply(trust[h], LocalAgent(h).DID,
                                              intent.DID, resp.TrustDelta)]
            /\ UNCHANGED <<known, discovery>>

\* the handler builds an empty announcement and returns
handleIncomingCapability(h, sid) ==
    /\ streams' = [streams EXCEPT ![sid].handled = "dropped"]
    /\ UNCHANGED <<known, discovery, trust, invoked>>

handleStreamNegotiationAsIntent(h, sid) ==
    /\ streams[sid].to = h
    /\ streams[sid].handled = "pending"
    /\ CASE streams[sid].req.type = MsgHandshake -> handleIncomingHandshake(h, sid)
         [] streams[sid].req.type \in {MsgIntent, MsgNegotiation} ->
                handleIncomingIntent(h, sid)
         [] streams[sid].req.type = MsgCapability -> handleIncomingCapability(h, sid)
         [] OTHER -> /\ streams' = [streams EXCEPT ![sid].handled = "dropped"]
                     /\ UNCHANGED <<known, discovery, trust, invoked>>
    /\ UNCHANGED <<onHandshake, onIntent>>

\* handleStream: read one frame and dispatch on its type
handleStream(h, sid) ==
    /\ streams[sid].to = h
    /\ streams[sid].handled = "pending"
    /\ CASE streams[sid].req.type = MsgHandshake -> handleIncomingHandshake(h, sid)
         [] streams[sid].req.type = MsgIntent -> handleIncomingIntent(h, sid)
         [] streams[sid].req.type = MsgCapability -> handleIncomingCapability(h, sid)
         [] OTHER -> /\ streams' = [streams EXCEPT ![sid].handled = "dropped"]
                     /\ UNCHANGED <<known, discovery, trust, invoked>>
    /\ UNCHANGED <<onHandshake, onIntent>>

(* ---- the peer M ---- *)

\* first moves M can make: any identity with any public key
PeerHellos ==
    { HandshakeMessage(c.id, c.did, <<"code-gen">>, now, c.pk, <<"nonce", "m">>, <<>>) :
        c \in { [id |-> "mallory", did |-> DIDString("kM"), pk |-> "kM"],
                [id |-> "alpha", did |-> DIDString("kA"), pk |-> "kM"],
                [id |-> "alpha", did |-> DIDString("kA"), pk |-> "kA"],
                [id |-> "alpha", did |-> DIDString("kM"), pk |-> "kM"],
                [id |-> "mallory", did |-> <<"did", ":", "symplex">>, pk |-> "kM"] } }

\* second moves M can make: any identity with any public key, and in
\* challenge_response nothing, its own signature of any nonce, or bytes
\* that are no signature
PeerAnswers(nonce) ==
    { HandshakeMessage(c.id, c.did, <<"nlp">>, now, c.pk, <<"nonce", "m">>, c.cr) :
        c \in { [id |-> "mallory", did |-> DIDString("kM"), pk |-> "kM",
                 cr |-> Ed25519Sign("kM", nonce)],
                [id |-> "mallory", did |-> DIDString("kM"), pk |-> "kM",
                 cr |-> Ed25519Sign("kM", <<"nonce", "old">>)],
                [id |-> "beta", did |-> DIDString("kB"), pk |-> "kB", cr |-> <<>>],
                [id |-> "beta", did |-> DIDString("kB"), pk |-> "kM",
                 cr |-> Ed25519Sign("kM", nonce)],
                [id |-> "mallory", did |-> <<"did", ":", "symplex">>, pk |-> "kM",
                 cr |-> Ed25519Sign("kM", nonce)],
                [id |-> "mallory", did |-> DIDString("kShort"), pk |-> "kShort",
                 cr |-> <<"junk">>],
                [id |-> "beta", did |-> DIDString("kB"), pk |-> "kB",
                 cr |-> Ed25519Sign("kM", nonce)] } }

PeerIntents ==
    { IntentMessage("id9", <<>>, <<"summarisation">>, DIDString("kA"), <<"forged">>,
                    now, <<>>) }

PeerResponses ==
    { NegotiationResponse("id1", "mallory", TRUE, <<>>, DIDString("kM"), <<>>, now,
                          <<"ok">>, Num(MaxMag), <<>>),
      NegotiationResponse("id1", "mallory", TRUE, <<>>, DIDString("kB"), <<>>, now,
                          <<"ok">>, Num(MaxMag), <<>>),
      NegotiationResponse("id1", "mallory", FALSE, <<>>, DIDString("kM"), <<>>, now,
                          <<"no">>, NaN, <<>>) }

\* frames M can open a stream with
PeerHandshakeRequests ==
    {FrameOf(MsgHandshake, EncodeHandshakeMessage(m)) : m \in PeerHellos}
      \cup {GarbageFrame(MsgHandshake)}
PeerIntentRequests ==
    {FrameOf(MsgIntent, EncodeIntentMessage(m)) : m \in PeerIntents}
      \cup {GarbageFrame(MsgIntent)}
PeerOtherRequests ==
    {FrameOf(MsgCapability, EncodeCapabilityAnnouncement(
         CapabilityAnnouncement("mallory", DIDString("kM"), <<"nlp">>, now, 300))),
     FrameOf(MsgNegotiation, <<>>), FrameOf(MsgWorkflow, <<>>), FrameOf(9, <<>>)}

\* frames M can answer a stream with
PeerHandshakeReplies(st) ==
    {FrameOf(MsgHandshake, EncodeHandshakeMessage(m)) : m \in PeerAnswers(st.nonce)}
      \cup {GarbageFrame(MsgHandshake), FrameOf(MsgNegotiation, <<>>)}
PeerIntentReplies ==
    {FrameOf(MsgNegotiation, EncodeNegotiationResponse(m)) : m \in PeerResponses}
      \cup {GarbageFrame(MsgNegotiation), FrameOf(MsgHandshake, <<>>)}

PeerOpen(to, frame) ==
    /\ Len(streams) < MaxStreams
    /\ streams' = Append(streams, Stream("peer", "M", to, <<>>, <<>>, frame, "none"))
    /\ UNCHANGED <<known, discovery, trust, onHandshake, onIntent, invoked>>

PeerReply(sid, frame) ==
    /\ streams[sid].to = "M"
    /\ streams[sid].handled = "pending"
    /\ streams' = [streams EXCEPT ![sid].handled = "replied", ![sid].resp = frame]
    /\ UNCHANGED <<known, discovery, trust, onHandshake, onIntent, invoked>>

\* M answers with the reply frame of an earlier handshake stream
PeerReplay(sid, j) ==
    /\ j < sid
    /\ streams[j].kind = "handshake"
    /\ streams[j].handled = "replied"
    /\ PeerReply(sid, streams[j].resp)

PeerClose(sid) ==
    /\ streams[sid].to = "M"
    /\ streams[sid].handled = "pending"
    /\ streams' = [streams EXCEPT ![sid].handled = "dropped"]
    /\ UNCHANGED <<known, discovery, trust, onHandshake, onIntent, invoked>>

\* intents the application of a host passes to SendIntent: made by
\* CreateIntent, sent as made or with the payload changed after signing;
\* M answers without looking at the intent, so one intent is sent to it
HostIntents(h, p) ==
    LET made == {CreateIntent(LocalAgent(h), "id1", <<Num(50)>>, req, <<"original">>,
                              now).intent :
                    req \in {<<"code-gen">>, <<"summarisation">>}}
        accepted == {x \in made : x.Capabilities = <<"code-gen">>}
    IN IF p \in Honest
       THEN made \cup {[m EXCEPT !.Payload = <<"tampered">>] : m \in accepted}
       ELSE accepted

\* handshake traffic: Handshake calls of the callers, the dispatcher of
\* every host, and M as initiator and as responder
HandshakeNext ==
    \/ \E h \in Callees, fn \in HandshakeCallbacks : OnHandshake(h, fn)
    \/ \E h \in Callers, p \in Peers : HandshakeOpen(h, p)
    \/ \E h \in Callers, sid \in DOMAIN streams : HandshakeReturn(h, sid)
    \/ \E h \in Honest, sid \in DOMAIN streams : handleStream(h, sid)
    \/ \E to \in Callees, frame \in PeerHandshakeRequests : PeerOpen(to, frame)
    \/ \E sid \in DOMAIN streams :
          \E frame \in PeerHandshakeReplies(streams[sid]) : PeerReply(sid, frame)
    \/ \E sid, j \in DOMAIN streams : PeerReplay(sid, j)
    \/ \E sid \in DOMAIN streams : PeerClose(sid)

\* intent traffic, after a handshake between the honest hosts or without one
IntentNext ==
    \/ \E h \in Callees, fn \in IntentCallbacks : OnIntent(h, fn)
    \/ \E h \in Callers, p \in Callees : HandshakeOpen(h, p)
    \/ \E h \in Callers, sid \in DOMAIN streams : HandshakeReturn(h, sid)
    \/ \E h \in Callers, p \in Peers :
          \E intent \in HostIntents(h, p) : SendIntentOpen(h, p, intent)
    \/ \E h \in Callers, sid \in DOMAIN streams : SendIntentReturn(h, sid)
    \/ \E h \in Honest, sid \in DOMAIN streams : handleStream(h, sid)
    \/ \E to \in Callees, frame \in PeerIntentRequests : PeerOpen(to, frame)
    \/ \E sid \in DOMAIN streams : \E frame \in PeerIntentReplies : PeerReply(sid, frame)
    \/ \E sid \in DOMAIN streams : PeerClose(sid)

\* handshake and intent traffic together
OutboundNext == HandshakeNext \/ IntentNext

\* capability announcements and frames of the types no handler takes
AnnounceNext ==
    \/ \E h \in Honest : AnnounceCapabilities(h)
    \/ \E h \in Honest, sid \in DOMAIN streams : handleStream(h, sid)
    \/ \E to \in Honest, frame \in PeerOtherRequests : PeerOpen(to, frame)
    \/ \E sid \in DOMAIN streams : PeerClose(sid)

-----------------------------------------------------------------------------
(* Calls of the signing functions (core/negotiation.go) *)

\* agents made by NewAgent and agents whose DID holds a public key only
SignAgents ==
    {Agent(c.id, c.k, <<"nlp">>, p) :
        c \in {[id |-> "alpha", k |-> "kA"], [id |-> "beta", k |-> "kB"]},
        p \in BOOLEAN}
RandomSources == {"id1", "id2", "fail"}
Payloads == {<<>>, <<"original">>, <<"tampered">>}
\* keys a caller verifies with: the known keys and one of the wrong size
VerifyKeys == Keys \cup {"kShort"}

SigInit == lastCall = [op |-> "none"]

\* one call of CreateIntent returns
CreateIntentCall(sender, src, vec, caps, payload) ==
    lastCall' = [op |-> "CreateIntent", sender |-> sender, src |-> src,
             payload |-> payload,
             res |-> IF randomID(src).err THEN [err |-> TRUE, intent |-> <<>>]
                     ELSE CreateIntent(sender, randomID(src).id, vec, caps,
                                       payload, now)]

\* the intents a caller verifies: an intent as made, with id, payload or
\* signature changed after signing, with the id moved to the front of the
\* payload, and without signature
IntentsToVerify ==
    LET signed == {CreateIntent(a, id, <<>>, <<"nlp">>, <<"original">>, now).intent :
                      a \in {x \in SignAgents : x.hasPriv}, id \in {"id1"}}
    IN UNION {{[orig |-> m, m |-> m],
               [orig |-> m, m |-> [m EXCEPT !.Payload = <<"tampered">>]],
               [orig |-> m, m |-> [m EXCEPT !.ID = "id2"]],
               [orig |-> m, m |-> [m EXCEPT !.ID = "", !.Payload = <<m.ID>> \o m.Payload]],
               [orig |-> m, m |-> [m EXCEPT !.Signature = <<"junk">>]],
               [orig |-> m, m |-> [m EXCEPT !.Signature = <<>>]]} : m \in signed}

VerifyIntentCall(c, signer, key) ==
    lastCall' = [op |-> "VerifyIntentSignature", orig |-> c.orig, m |-> c.m,
             signer |-> signer, key |-> key,
             res |-> VerifyIntentSignature(c.m, key)]

\* the responses a caller verifies: a response as the default handler made
\* it, with request_id, reason or signature changed, and without signature
ResponsesToVerify ==
    LET signed == {DefaultNegotiationHandler(a,
                       IntentMessage("id1", <<>>, caps, DIDString("kM"), <<>>, now, <<>>),
                       now) :
                      a \in {x \in SignAgents : x.hasPriv},
                      caps \in {<<"nlp">>, <<"code-gen">>}}
    IN UNION {{[orig |-> m, m |-> m],
               [orig |-> m, m |-> [m EXCEPT !.Reason = <<"forged">>]],
               [orig |-> m, m |-> [m EXCEPT !.RequestID = "id2"]],
               [orig |-> m, m |-> [m EXCEPT !.Signature = <<"junk">>]],
               [orig |-> m, m |-> [m EXCEPT !.Signature = <<>>]]} : m \in signed}

VerifyResponseCall(c, signer, key) ==
    lastCall' = [op |-> "VerifyResponseSignature", orig |-> c.orig, m |-> c.m,
             signer |-> signer, key |-> key,
             res |-> VerifyResponseSignature(c.m, key)]

SigNext ==
    \/ \E sender \in SignAgents, src \in RandomSources, vec \in Vectors,
          caps \in {<<>>, <<"code-gen">>}, payload \in Payloads :
          CreateIntentCall(sender, src, vec, caps, payload)
    \/ \E c \in IntentsToVerify, key \in VerifyKeys :
          \E signer \in {a \in SignAgents : a.hasPriv /\ a.DID = c.orig.DID} :
              VerifyIntentCall(c, signer, key)
    \/ \E c \in ResponsesToVerify, key \in VerifyKeys :
          \E signer \in {a \in SignAgents : a.hasPriv /\ a.DID = c.orig.DID} :
              VerifyResponseCall(c, signer, key)

-----------------------------------------------------------------------------
(* Calls of the codec (core/encoding.go) *)

\* signed messages: intents made by CreateIntent and responses made by the
\* default handler, each with the key of its signer
SignedMessages ==
    {[type |-> MsgIntent, key |-> a.key,
      m |-> CreateIntent(a, "id1", vec, <<"code-gen">>, payload, now).intent] :
        a \in {x \in SignAgents : x.hasPriv}, vec \in Vectors,
        payload \in {<<>>, <<"original">>}}
    \cup
    {[type |-> MsgNegotiation, key |-> a.key,
      m |-> DefaultNegotiationHandler(a,
                IntentMessage("id1", vec, caps, DIDString("kM"), <<>>, now, <<>>), now)] :
        a \in {x \in SignAgents : x.hasPriv}, vec \in Vectors,
        caps \in {<<"nlp">>, <<"code-gen">>}}

\* unsigned messages of the five kinds: with every field set, and with every
\* field at the default of its type
PlainMessages ==
    {[type |-> MsgIntent, key |-> "",
      m |-> IntentMessage(id, vec, caps, did, payload, t, <<>>)] :
        id \in {"", "id1"}, vec \in Vectors \cup {<<NaN, Zero32>>},
        caps \in {<<>>, <<"nlp", "">>}, did \in {<<>>, DIDString("kA")},
        payload \in {<<>>, <<"original">>}, t \in {0, now}}
    \cup
    {[type |-> MsgIntent, key |-> "",
      m |-> [ID |-> "", IntentVector |-> <<>>, Capabilities |-> <<>>, DID |-> <<>>,
             Payload |-> <<>>, Timestamp |-> 0, TrustScore |-> Zero32,
             Metadata |-> <<>>, Signature |-> <<>>]]}
    \cup
    {[type |-> MsgHandshake, key |-> "", m |-> m] :
        m \in {StartHandshake(LocalAgent("A"), Nonce(1), now),
               RespondHandshake(LocalAgent("B"),
                                StartHandshake(LocalAgent("A"), Nonce(1), now),
                                Nonce(2), now).msg,
               [AgentID |-> "", DID |-> <<>>, Capabilities |-> <<>>, Version |-> "",
                Timestamp |-> 0, PublicKey |-> "", Challenge |-> <<>>,
                ChallengeResponse |-> <<>>]}}
    \cup
    {[type |-> MsgNegotiation, key |-> "",
      m |-> NegotiationResponse(id, "beta", acc, steps, DIDString("kB"), vec, now,
                                <<"ok">>, delta, <<>>)] :
        id \in {"", "id1"}, acc \in BOOLEAN,
        steps \in {<<>>, <<<<"parse_intent:", "id1">>, <<"return_result:", "id1">>>>},
        vec \in Vectors, delta \in {Zero32, Num(5), Num(-2), NaN}}
    \cup
    {[type |-> MsgWorkflow, key |-> "",
      m |-> WorkflowMessage(wid, "s1", next, "beta", DIDString("kB"), "execute",
                            params, "", t)] :
        wid \in {"", "w1"}, next \in {"", "s2"},
        params \in {<<>>, [cap |-> "nlp"]}, t \in {0, now}}
    \cup
    {[type |-> MsgCapability, key |-> "", m |-> m] :
        m \in {BuildAnnouncement(LocalAgent(h), ttl, t) :
                  h \in Honest, ttl \in {0, AnnouncementTTL}, t \in {0, now}}}

CodecInit == wire = [op |-> "none"]

\* m.Encode() followed by the decoder of the type: DecodeCapabilityAnnouncement
\* for an announcement, Decode for every other type
RoundTrip(c) ==
    wire' = [op |-> "RoundTrip", type |-> c.type, key |-> c.key, m |-> c.m,
             data |-> EncodeOf(c.type, c.m),
             res |-> IF c.type = MsgCapability
                     THEN [err |-> FALSE,
                           msg |-> DecodeCapabilityAnnouncement(EncodeOf(c.type, c.m))]
                     ELSE Decode(c.type, EncodeOf(c.type, c.m))]

\* payloads: up to MaxPayload explicit bytes, followed by nothing or by so
\* many bytes that the body is 4 MiB, one byte short of 2^32, or 2^32 long
TypeBytes == {0, MsgHandshake, MsgNegotiation, 255}
PayloadHeads == UNION {[1..n -> {0, 7, 255}] : n \in 0..MaxPayload}
PayloadFills == {WideOf(0), Wide(64, 0), Wide(65535, 65534 - MaxPayload),
                 Wide(65535, 65535)}
FramePayloads == {ByteString(h, f) : h \in PayloadHeads, f \in PayloadFills}

\* inputs of the frame decoders: short inputs, headers that advertise a
\* body of 0 bytes, of 1 or 2 bytes, of 4 MiB and of more than 4 MiB, each
\* with the advertised body present or cut short
DecoderHeaders ==
    {<<>>, <<0>>, <<0, 0, 0>>, <<0, 0, 0, 0>>, <<0, 0, 0, 1>>, <<0, 0, 0, 2>>,
     <<0, 64, 0, 0>>, <<0, 64, 0, 1>>, <<255, 255, 255, 255>>}
DecoderInputs ==
    {ByteString(h \o t, f) :
        h \in DecoderHeaders, t \in {<<>>, <<MsgIntent>>, <<MsgIntent, 7>>},
        f \in {WideOf(0), Wide(64, 0), Wide(65535, 65535)}}

\* Frame followed by Unframe
FrameUnframe(msgType, payload) ==
    wire' = [op |-> "Frame", type |-> msgType, payload |-> payload,
             frame |-> Frame(msgType, payload),
             res |-> Unframe(Frame(msgType, payload))]

UnframeCall(input) ==
    wire' = [op |-> "Unframe", input |-> input, res |-> Unframe(input)]

ReadMsgCall(input) ==
    wire' = [op |-> "readMsg", input |-> input, res |-> readMsg(input)]

CodecNext ==
    \/ \E c \in SignedMessages \cup PlainMessages : RoundTrip(c)
    \/ \E t \in TypeBytes, payload \in FramePayloads : FrameUnframe(t, payload)
    \/ \E input \in DecoderInputs : UnframeCall(input)
    \/ \E input \in DecoderInputs : ReadMsgCall(input)

-----------------------------------------------------------------------------
(* In-process negotiation bus (core/negotiation.go) *)

\* the handlers an application registers: the default handler of two
\* agents, and a handler that returns (nil, err)
BusHandlers == {"hAlpha", "hBeta", "hFail"}
BusAgentIDs == {"alpha", "beta"}
BusIntents ==
    {IntentMessage("id1", <<>>, caps, DIDString("kM"), <<>>, now, <<>>) :
        caps \in {<<"nlp">>, <<"code-gen">>}}

\* h(intent)
HandlerResult(h, intent) ==
    CASE h = "hAlpha" ->
           [err |-> FALSE, resp |-> DefaultNegotiationHandler(LocalAgent("A"), intent, now)]
      [] h = "hBeta" ->
           [err |-> FALSE, resp |-> DefaultNegotiationHandler(LocalAgent("B"), intent, now)]
      [] OTHER -> [err |-> TRUE, resp |-> <<>>]

\* NewNegotiationBus
BusInit ==
    /\ handlers = <<>>
    /\ registered = <<>>
    /\ busCalls = <<>>
    /\ busInvoked = <<>>

RegisterKeepFirst(agentID, h) ==
    /\ Len(registered) + Len(busCalls) < MaxBusOps
    /\ handlers' = IF agentID \in DOMAIN handlers THEN handlers
                   ELSE MapPut(handlers, agentID, h)
    /\ registered' = Append(registered, [id |-> agentID, h |-> h])
    /\ UNCHANGED <<busCalls, busInvoked>>

\* Register: b.handlers[agentID] = h under the write lock
Register(agentID, h) ==
    /\ Len(registered) + Len(busCalls) < MaxBusOps
    /\ handlers' = MapPut(handlers, agentID, h)
    /\ registered' = Append(registered, [id |-> agentID, h |-> h])
    /\ UNCHANGED <<busCalls, busInvoked>>

\* Negotiate up to the release of the read lock: h, ok := b.handlers[target]
NegotiateLookup(target, intent) ==
    /\ Len(registered) + Len(busCalls) < MaxBusOps
    /\ busCalls' = Append(busCalls,
          [target |-> target, intent |-> intent, pc |-> "looked",
           ok |-> target \in DOMAIN handlers,
           h |-> IF target \in DOMAIN handlers THEN handlers[target] ELSE "",
           at |-> Len(registered),
           res |-> [err |-> FALSE, resp |-> <<>>]])
    /\ UNCHANGED <<handlers, registered, busInvoked>>

\* Negotiate from there to its return: the error, or h(intent)
NegotiateReturn(i) ==
    /\ busCalls[i].pc = "looked"
    /\ IF ~busCalls[i].ok
       THEN /\ busCalls' = [busCalls EXCEPT ![i].pc = "done",
                                             ![i].res = [err |-> TRUE, resp |-> <<>>]]
            /\ UNCHANGED busInvoked
       ELSE /\ busInvoked' = Append(busInvoked, [call |-> i, h |-> busCalls[i].h])
            /\ busCalls' = [busCalls EXCEPT
                    ![i].pc = "done",
                    ![i].res = HandlerResult(busCalls[i].h, busCalls[i].intent)]
    /\ UNCHANGED <<handlers, registered>>

BusNext ==
    \/ \E agentID \in BusAgentIDs, h \in BusHandlers : Register(agentID, h)
    \/ \E target \in BusAgentIDs, intent \in BusIntents : NegotiateLookup(target, intent)
    \/ \E i \in DOMAIN busCalls : NegotiateReturn(i)

-----------------------------------------------------------------------------
(* Workflow orchestrator (p2p/protocol.go, kept in src/unnamed/part_008) *)

\* the host of the orchestrator
Orchestrator == "A"

WorkflowStep(id, cap, vec, payload) ==
    [ID |-> id, Capability |-> cap, IntentVector |-> vec, Payload |-> payload]

StepResult(stepID, agentID, accepted, reason, t) ==
    [StepID |-> stepID, AgentID |-> agentID, Accepted |-> accepted,
     Reason |-> reason, Timestamp |-> t]
\* StepResult{}
ZeroStepResult == StepResult("", "", FALSE, <<>>, ZeroTime)

\* c.EmbeddingVector; nil in the profiles the host and the registry build
EmbeddingOf(c) == IF "EmbeddingVector" \in DOMAIN c THEN c.EmbeddingVector ELSE <<>>

RECURSIVE SumOf(_, _)
SumOf(f, n) == IF n = 0 THEN 0 ELSE f[n] + SumOf(f, n - 1)
HasNaN(a) == \E i \in DOMAIN a : a[i].nan

\* a float64 score: NaN, or the sign and the square of the cosine as the
\* fraction n / d with d > 0, which orders scores as the cosines do; the
\* rounding of the float64 operations is not modelled
Score(n, d) == [nan |-> FALSE, n |-> n, d |-> d]
ScoreNaN == [nan |-> TRUE, n |-> 0, d |-> 1]
ScoreGt(x, y) == ~x.nan /\ ~y.nan /\ x.n * y.d > y.n * x.d
ScoreEq(x, y) == ~x.nan /\ ~y.nan /\ x.n * y.d = y.n * x.d

CosineSimilarity(a, b) ==
    IF Len(a) # Len(b) \/ Len(a) = 0 THEN Score(0, 1)
    ELSE LET dot == SumOf([i \in DOMAIN a |-> a[i].v * b[i].v], Len(a))
             normA == SumOf([i \in DOMAIN a |-> a[i].v * a[i].v], Len(a))
             normB == SumOf([i \in DOMAIN b |-> b[i].v * b[i].v], Len(b))
         IN IF (~HasNaN(a) /\ normA = 0) \/ (~HasNaN(b) /\ normB = 0) THEN Score(0, 1)
            ELSE IF HasNaN(a) \/ HasNaN(b) THEN ScoreNaN
            ELSE Score((IF dot < 0 THEN -1 ELSE 1) * dot * dot, normA * normB)

\* sort.Slice(x, less): a permutation of the indices of x, given as the
\* index that lands at each position. The sort is not stable, so elements
\* of which neither is less than the other come out in any order; with a
\* less that is no strict weak ordering (a NaN among the scores) the order
\* of the result is unspecified
SortSlice(scoresOf) ==
    {o \in RangeOrders(DOMAIN scoresOf) :
        \/ \E i \in DOMAIN scoresOf : scoresOf[i].nan
        \/ \A i, j \in DOMAIN o : i < j => ~ScoreGt(scoresOf[o[j]], scoresOf[o[i]])}

\* RankCandidates: the slices out it can return
RankCandidates(intentVector, candidates) ==
    LET rs == [i \in DOMAIN candidates |->
                 [profile |-> candidates[i],
                  score |-> CosineSimilarity(intentVector, EmbeddingOf(candidates[i]))]]
    IN {[i \in DOMAIN rs |-> rs[o[i]].profile] :
          o \in SortSlice([i \in DOMAIN rs |-> rs[i].score])}

\* resolvePeerID: the peers that the range over known may stop at
resolvePeerID(h, agentID) == {p \in DOMAIN known[h] : known[h][p].AgentID = agentID}

\* the outcome of a step goroutine: position, stream of its SendIntent,
\* and the values (r, err) of executeStep
StepGo(pc, sid, r, err, msg) ==
    [pc |-> pc, sid |-> sid, r |-> r, err |-> err, msg |-> msg]

WorkflowInit ==
    /\ wfPc = "idle"
    /\ wfSteps = <<>>
    /\ stepGo = <<>>
    /\ results = <<>>
    /\ firstErr = <<>>
    /\ wfDone = <<>>
    /\ wfRet = [results |-> <<>>, err |-> <<>>]

\* RunWorkflow up to wg.Wait: make the slice, start one goroutine per step
RunWorkflow(ss) ==
    /\ wfPc = "idle"
    /\ wfPc' = "running"
    /\ wfSteps' = ss
    /\ results' = [i \in DOMAIN ss |-> ZeroStepResult]
    /\ stepGo' = [i \in DOMAIN ss |-> StepGo("spawned", 0, ZeroStepResult, FALSE, <<>>)]
    /\ firstErr' = <<>>
    /\ UNCHANGED <<wfDone, wfRet, hostVars>>

\* executeStep that returns an error before SendIntent
StepFails(idx, msg) ==
    /\ stepGo' = [stepGo EXCEPT ![idx] = StepGo("executed", 0, ZeroStepResult, TRUE, msg)]
    /\ UNCHANGED streams

\* executeStep up to the read of the reply in SendIntent: find the
\* candidates, rank them, resolve the best one, create the intent, open the
\* stream and write the intent
executeStepSend(idx) ==
    LET h == Orchestrator
        step == wfSteps[idx]
    IN /\ wfPc = "running"
       /\ stepGo[idx].pc = "spawned"
       /\ \E o \in RangeOrders(DOMAIN discovery[h]) :
            LET candidates == ProfilesOf(FindByCapabilityIn(discovery[h], now, o,
                                                           <<step.Capability>>))
            IN IF Len(candidates) = 0
               THEN StepFails(idx, <<"no peer with capability ", step.Capability>>)
               ELSE \E ranked \in RankCandidates(step.IntentVector, candidates) :
                      LET best == ranked[1]
                          pids == resolvePeerID(h, best.AgentID)
                      IN IF pids = {}
                         THEN StepFails(idx, <<"peerID not found for agentID ",
                                               best.AgentID>>)
                         ELSE \E peerID \in pids, src \in {"id" \o ToString(idx), "fail"} :
                                LET made == CreateIntent(LocalAgent(h), randomID(src).id,
                                                step.IntentVector, <<step.Capability>>,
                                                step.Payload, now)
                                    intent == [made.intent EXCEPT
                                                 !.Metadata = [protocol |-> "1.0.0",
                                                               workflow_id |-> "w1",
                                                               step_id |-> step.ID]]
                                IN IF randomID(src).err \/ made.err
                                   THEN StepFails(idx, <<"CreateIntent">>)
                                   ELSE /\ streams' = Append(streams,
                                              Stream("intent", h, peerID, <<>>, intent,
                                                     FrameOf(MsgIntent,
                                                             EncodeIntentMessage(intent)),
                                                     "pending"))
                                        /\ stepGo' = [stepGo EXCEPT ![idx] =
                                              StepGo("sent", Len(streams) + 1,
                                                     ZeroStepResult, FALSE, <<>>)]
       /\ UNCHANGED <<known, discovery, trust, onHandshake, onIntent, invoked>>
       /\ UNCHANGED <<wfPc, wfSteps, results, firstErr, wfDone, wfRet>>

\* executeStep from the return of SendIntent to its own return
executeStepReturn(idx) ==
    LET h == Orchestrator
        sid == stepGo[idx].sid
    IN /\ wfPc = "running"
       /\ stepGo[idx].pc = "sent"
       /\ SendIntentReturn(h, sid)
       /\ stepGo' = [stepGo EXCEPT ![idx] =
             IF SendIntentAccepts(streams[sid])
             THEN LET resp == DecodeNegotiationResponse(streams[sid].resp.payload)
                  IN StepGo("executed", sid,
                            StepResult(wfSteps[idx].ID, resp.AgentID, resp.Accepted,
                                       resp.Reason, now),
                            FALSE, <<>>)
             ELSE StepGo("executed", sid, ZeroStepResult, TRUE, <<"p2p intent">>)]
       /\ UNCHANGED <<wfPc, wfSteps, results, firstErr, wfDone, wfRet>>

StepRecordAppend(idx) ==
    LET s == wfSteps[idx]
        g == stepGo[idx]
    IN /\ wfPc = "running"
       /\ g.pc = "executed"
       /\ results' = [results EXCEPT ![Len(wfDone) + 1] =
             IF g.err THEN StepResult(s.ID, "", FALSE, g.msg, now) ELSE g.r]
       /\ firstErr' = IF g.err /\ firstErr = <<>>
                      THEN <<"step ", s.ID, ": ">> \o g.msg ELSE firstErr
       /\ stepGo' = [stepGo EXCEPT ![idx].pc = "done"]
       /\ wfDone' = Append(wfDone, idx)
       /\ UNCHANGED <<wfPc, wfSteps, wfRet, hostVars>>

StepRecordFirstFailureOnly(idx) ==
    LET s == wfSteps[idx]
        g == stepGo[idx]
    IN /\ wfPc = "running"
       /\ g.pc = "executed"
       /\ results' = [results EXCEPT ![idx] =
             IF g.err
             THEN IF firstErr = <<>>
                  THEN StepResult(s.ID, "", FALSE, g.msg, now)
                  ELSE StepResult(s.ID, "", FALSE, <<>>, now)
             ELSE g.r]
       /\ firstErr' = IF g.err /\ firstErr = <<>>
                      THEN <<"step ", s.ID, ": ">> \o g.msg ELSE firstErr
       /\ stepGo' = [stepGo EXCEPT ![idx].pc = "done"]
       /\ wfDone' = Append(wfDone, idx)
       /\ UNCHANGED <<wfPc, wfSteps, wfRet, hostVars>>

\* the goroutine from mu.Lock to its end: record the result at its index
StepRecord(idx) ==
    LET s == wfSteps[idx]
        g == stepGo[idx]
    IN /\ wfPc = "running"
       /\ g.pc = "executed"
       /\ results' = [results EXCEPT ![idx] =
             IF g.err THEN StepResult(s.ID, "", FALSE, g.msg, now) ELSE g.r]
       /\ firstErr' = IF g.err /\ firstErr = <<>>
                      THEN <<"step ", s.ID, ": ">> \o g.msg ELSE firstErr
       /\ stepGo' = [stepGo EXCEPT ![idx].pc = "done"]
       /\ wfDone' = Append(wfDone, idx)
       /\ UNCHANGED <<wfPc, wfSteps, wfRet, hostVars>>

RunWorkflowReturnNoWait ==
    /\ wfPc = "running"
    /\ wfPc' = "returned"
    /\ wfRet' = [results |-> results, err |-> firstErr]
    /\ UNCHANGED <<wfSteps, stepGo, results, firstErr, wfDone, hostVars>>

\* RunWorkflow from the return of wg.Wait: return results, firstErr
RunWorkflowReturn ==
    /\ wfPc = "running"
    /\ \A i \in DOMAIN stepGo : stepGo[i].pc = "done"
    /\ wfPc' = "returned"
    /\ wfRet' = [results |-> results, err |-> firstErr]
    /\ UNCHANGED <<wfSteps, stepGo, results, firstErr, wfDone, hostVars>>

\* the steps an application passes: a capability of B, a capability of M,
\* a capability of nobody; step identifiers may repeat
StepChoices ==
    {WorkflowStep("s1", "code-gen", <<Num(50)>>, <<"original">>),
     WorkflowStep("s2", "nlp", <<Num(50)>>, <<"original">>),
     WorkflowStep("s1", "summarisation", <<Num(50)>>, <<"original">>)}
StepLists == UNION {[1..n -> StepChoices] : n \in 0..MaxSteps}

\* the application announces a profile in the registry of its host:
\* host.Discovery().Announce(profile, 0)
DiscoveryAnnounce(h, profile) ==
    /\ discovery' = [discovery EXCEPT
                        ![h] = RegistryAnnounce(discovery[h], now, profile, 0)]
    /\ UNCHANGED <<known, trust, onHandshake, onIntent, streams, invoked>>

\* an agent the application has heard of and no stream has reached; it
\* shares a capability with B
HeardOf == AgentProfile("gamma", DIDString("kC"), <<"summarisation", "code-gen">>)

\* what M answers while a workflow runs: a handshake under its own
\* identity, and any of its replies to an intent
WorkflowPeerReplies(st) ==
    IF st.kind = "handshake"
    THEN {FrameOf(MsgHandshake, EncodeHandshakeMessage(
              HandshakeMessage("mallory", DIDString("kM"), <<"nlp">>, now, "kM",
                               <<"nonce", "m">>, Ed25519Sign("kM", st.nonce))))}
    ELSE PeerIntentReplies

\* a workflow of the orchestrator after its handshakes with B and M
WorkflowNext ==
    \/ /\ wfPc = "idle"
       /\ \E p \in NetworkPeers(Orchestrator) : HandshakeOpen(Orchestrator, p)
       /\ UNCHANGED wfVars
    \/ /\ wfPc = "idle"
       /\ "gamma" \notin DOMAIN discovery[Orchestrator]
       /\ DiscoveryAnnounce(Orchestrator, HeardOf)
       /\ UNCHANGED wfVars
    \/ /\ \E sid \in DOMAIN streams : HandshakeReturn(Orchestrator, sid)
       /\ UNCHANGED wfVars
    \/ /\ \E h \in Honest, sid \in DOMAIN streams : handleStream(h, sid)
       /\ UNCHANGED wfVars
    \/ /\ \E sid \in DOMAIN streams :
            \E frame \in WorkflowPeerReplies(streams[sid]) : PeerReply(sid, frame)
       /\ UNCHANGED wfVars
    \/ /\ \E sid \in DOMAIN streams : PeerClose(sid)
       /\ UNCHANGED wfVars
    \/ \E ss \in StepLists : RunWorkflow(ss)
    \/ \E idx \in DOMAIN stepGo : executeStepSend(idx)
    \/ \E idx \in DOMAIN stepGo : executeStepReturn(idx)
    \/ \E idx \in DOMAIN stepGo : StepRecord(idx)
    \/ RunWorkflowReturn

\* what M answers in the runs that are checked for termination: its
\* handshake, and to an intent either an acceptance or a frame that does
\* not decode; a stream that M closes or leaves unanswered ends SendIntent
\* through the same error return
TerminationPeerReplies(st) ==
    IF st.kind = "handshake"
    THEN WorkflowPeerReplies(st)
    ELSE {FrameOf(MsgNegotiation, EncodeNegotiationResponse(
              NegotiationResponse("id1", "mallory", TRUE, <<>>, DIDString("kM"), <<>>,
                                  now, <<"ok">>, Num(MaxMag), <<>>))),
          GarbageFrame(MsgNegotiation)}

\* a step of the call of RunWorkflow or of one of its goroutines
WorkflowProgress ==
    \/ \E idx \in DOMAIN stepGo : executeStepSend(idx)
    \/ \E idx \in DOMAIN stepGo : executeStepReturn(idx)
    \/ \E idx \in DOMAIN stepGo : StepRecord(idx)
    \/ RunWorkflowReturn

\* the workflow of WorkflowNext with the replies of M narrowed
WorkflowTerminationNext ==
    \/ /\ wfPc = "idle"
       /\ \E p \in NetworkPeers(Orchestrator) : HandshakeOpen(Orchestrator, p)
       /\ UNCHANGED wfVars
    \/ /\ wfPc = "idle"
       /\ "gamma" \notin DOMAIN discovery[Orchestrator]
       /\ DiscoveryAnnounce(Orchestrator, HeardOf)
       /\ UNCHANGED wfVars
    \/ /\ \E sid \in DOMAIN streams : HandshakeReturn(Orchestrator, sid)
       /\ UNCHANGED wfVars
    \/ /\ \E h \in Honest, sid \in DOMAIN streams : handleStream(h, sid)
       /\ UNCHANGED wfVars
    \/ /\ \E sid \in DOMAIN streams :
            \E frame \in TerminationPeerReplies(streams[sid]) : PeerReply(sid, frame)
       /\ UNCHANGED wfVars
    \/ \E ss \in StepLists : RunWorkflow(ss)
    \/ WorkflowProgress

-----------------------------------------------------------------------------
(* Goroutines and locks of the host and the bus *)

\* one statement of a function body, as far as it touches a lock, the
\* known map, a callback field, the handler table or the trust ledger
Stmt(i, m) == [i |-> i, m |-> m]

\* OnHandshake and OnIntent: Lock, defer Unlock, assign
BodyOnHandshake == <<Stmt("Lock", "host"), Stmt("SetCb", "onHandshake"), Stmt("Unlock", "host")>>
BodyOnIntent == <<Stmt("Lock", "host"), Stmt("SetCb", "onIntent"), Stmt("Unlock", "host")>>
\* Handshake after FinishHandshake: cache the profile, then announce
\* ah.known[peerID.String()] after the Unlock
BodyHandshake ==
    <<Stmt("Lock", "host"), Stmt("WriteKnown", "host"), Stmt("Unlock", "host"),
      Stmt("ReadKnown", "host")>>
BodyHandleIncomingHandshake ==
    <<Stmt("RLock", "host"), Stmt("GetCb", "onHandshake"), Stmt("RUnlock", "host"),
      Stmt("Call", "host"),
      Stmt("Lock", "host"), Stmt("WriteKnown", "host"), Stmt("Unlock", "host"),
      Stmt("ReadKnown", "host")>>
BodyHandleIncomingIntent ==
    <<Stmt("RLock", "host"), Stmt("GetCb", "onIntent"), Stmt("RUnlock", "host"),
      Stmt("Call", "host"), Stmt("Apply", "host")>>
\* SendIntent after the decode of the response
BodySendIntent == <<Stmt("Apply", "host")>>
BodyResolvePeerID ==
    <<Stmt("RLock", "host"), Stmt("ReadKnown", "host"), Stmt("RUnlock", "host")>>
BodyRegister == <<Stmt("Lock", "bus"), Stmt("SetCb", "handler"), Stmt("Unlock", "bus")>>
BodyNegotiateDeferUnlock ==
    <<Stmt("RLock", "bus"), Stmt("GetCb", "handler"), Stmt("Call", "bus"),
      Stmt("RUnlock", "bus")>>
BodyNegotiate ==
    <<Stmt("RLock", "bus"), Stmt("GetCb", "handler"), Stmt("RUnlock", "bus"),
      Stmt("Call", "bus")>>

Body(op) ==
    CASE op = "OnHandshake" -> BodyOnHandshake
      [] op = "OnIntent" -> BodyOnIntent
      [] op = "Handshake" -> BodyHandshake
      [] op = "handleIncomingHandshake" -> BodyHandleIncomingHandshake
      [] op = "handleIncomingIntent" -> BodyHandleIncomingIntent
      [] op = "SendIntent" -> BodySendIntent
      [] op = "resolvePeerID" -> BodyResolvePeerID
      [] op = "Register" -> BodyRegister
      [] op = "Negotiate" -> BodyNegotiate

\* what a registered callback or handler does: "plain" returns without
\* touching the host or the bus, the others call the named function of the
\* same host or bus (registering a plain callback) before they return;
\* "nil" is no callback
Callbacks == {"plain", "OnHandshake", "OnIntent"}
Handlers == {"plain", "Register", "Negotiate"}

\* a goroutine: the function it runs and its argument, the statement it
\* is at, the function its callback is in (sub, spc), the callback it
\* loaded, and whether it is in the middle of a map access
Goroutine(op, arg) ==
    [op |-> op, arg |-> arg, pc |-> 1, sub |-> "none", spc |-> 0, cb |-> "nil",
     mid |-> FALSE, tmp |-> Zero32]

Finished(gr) == gr.sub = "none" /\ gr.pc > Len(Body(gr.op))
StmtOf(gr) == IF gr.sub # "none" THEN Body(gr.sub)[gr.spc] ELSE Body(gr.op)[gr.pc]
At(g, i) == ~Finished(goroutines[g]) /\ StmtOf(goroutines[g]).i = i
\* the goroutine after its statement; a callback that ends returns to its caller
After(gr) ==
    IF gr.sub = "none" THEN [gr EXCEPT !.pc = @ + 1, !.mid = FALSE]
    ELSE IF gr.spc < Len(Body(gr.sub)) THEN [gr EXCEPT !.spc = @ + 1, !.mid = FALSE]
    ELSE [gr EXCEPT !.sub = "none", !.spc = 0, !.pc = @ + 1, !.mid = FALSE]

\* sync.RWMutex: the writer, the read locks held by each goroutine, and
\* the goroutines blocked in Lock, which keep new readers out
NewRWMutex == [writer |-> 0, readers |-> [g \in 1..MaxGoroutines |-> 0], waiting |-> {}]
Free(m) == m.writer = 0 /\ \A g \in DOMAIN m.readers : m.readers[g] = 0
Held(g) == {m \in DOMAIN mu : mu[m].writer = g \/ mu[m].readers[g] > 0}

\* the edge of the ledger the goroutines update, and the peer they cache
Edge == trustKey(DIDString("kA"), DIDString("kB"))
PeerKey == "B"

ConcInit ==
    /\ goroutines = <<>>
    /\ mu = [m \in {"host", "bus"} |-> NewRWMutex]
    /\ mem = [known |-> <<>>, onHandshake |-> "nil", onIntent |-> "nil",
              handler |-> "nil", scores |-> NewTrustGraph]
    /\ audit = [accesses |-> {}, calls |-> {}, applied |-> <<>>]

\* a function of the host or the bus is called on a new goroutine
Go(op, arg) ==
    /\ Len(goroutines) < MaxGoroutines
    /\ goroutines' = Append(goroutines, Goroutine(op, arg))
    /\ UNCHANGED <<mu, mem, audit>>

\* the function a goroutine is in, and how it holds a lock
FuncOf(gr) == IF gr.sub # "none" THEN gr.sub ELSE gr.op
HeldAs(g, m) ==
    IF mu[m].writer = g THEN "exclusive"
    ELSE IF mu[m].readers[g] > 0 THEN "shared" ELSE "none"

\* mu.Lock returns
Lock(g) ==
    LET m == StmtOf(goroutines[g]).m
    IN /\ At(g, "Lock")
       /\ Free(mu[m])
       /\ mu' = [mu EXCEPT ![m].writer = g, ![m].waiting = @ \ {g}]
       /\ goroutines' = [goroutines EXCEPT ![g] = After(@)]
       /\ UNCHANGED <<mem, audit>>

\* mu.Lock blocks: from now on RLock blocks too
LockWait(g) ==
    LET m == StmtOf(goroutines[g]).m
    IN /\ At(g, "Lock")
       /\ ~Free(mu[m])
       /\ g \notin mu[m].waiting
       /\ mu' = [mu EXCEPT ![m].waiting = @ \cup {g}]
       /\ UNCHANGED <<goroutines, mem, audit>>

RLock(g) ==
    LET m == StmtOf(goroutines[g]).m
    IN /\ At(g, "RLock")
       /\ mu[m].writer = 0 /\ mu[m].waiting = {}
       /\ mu' = [mu EXCEPT ![m].readers[g] = @ + 1]
       /\ goroutines' = [goroutines EXCEPT ![g] = After(@)]
       /\ UNCHANGED <<mem, audit>>

Unlock(g) ==
    LET m == StmtOf(goroutines[g]).m
    IN /\ At(g, "Unlock")
       /\ mu' = [mu EXCEPT ![m].writer = 0]
       /\ goroutines' = [goroutines EXCEPT ![g] = After(@)]
       /\ UNCHANGED <<mem, audit>>

RUnlock(g) ==
    LET m == StmtOf(goroutines[g]).m
    IN /\ At(g, "RUnlock")
       /\ mu' = [mu EXCEPT ![m].readers[g] = @ - 1]
       /\ goroutines' = [goroutines EXCEPT ![g] = After(@)]
       /\ UNCHANGED <<mem, audit>>

\* ah.onHandshake = fn, ah.onIntent = fn, b.handlers[agentID] = h; a
\* callback that registers, registers a plain one
SetCb(g) ==
    LET gr == goroutines[g]
    IN /\ At(g, "SetCb")
       /\ mem' = [mem EXCEPT ![StmtOf(gr).m] = IF gr.sub # "none" THEN "plain" ELSE gr.arg]
       /\ goroutines' = [goroutines EXCEPT ![g] = After(@)]
       /\ UNCHANGED <<mu, audit>>

\* cb := ah.onHandshake, cb := ah.onIntent, h, ok := b.handlers[target]
GetCb(g) ==
    LET gr == goroutines[g]
    IN /\ At(g, "GetCb")
       /\ goroutines' = [goroutines EXCEPT ![g] = After([gr EXCEPT !.cb = mem[StmtOf(gr).m]])]
       /\ UNCHANGED <<mu, mem, audit>>

\* cb(...) and h(intent): the callback runs on the goroutine of its
\* caller; the Negotiate that a handler calls names a target with a plain
\* handler
Call(g) ==
    LET gr == goroutines[g]
    IN /\ At(g, "Call")
       /\ audit' = [audit EXCEPT !.calls = @ \cup {[by |-> FuncOf(gr), held |-> Held(g)]}]
       /\ goroutines' = [goroutines EXCEPT ![g] =
             IF gr.sub = "none" /\ gr.cb \notin {"nil", "plain"}
             THEN [gr EXCEPT !.sub = gr.cb, !.spc = 1]
             ELSE After(gr)]
       /\ UNCHANGED <<mu, mem>>

\* some other goroutine is in the middle of a write of known
WriteInProgress(g) ==
    \E h \in DOMAIN goroutines : h # g /\ At(h, "WriteKnown") /\ goroutines[h].mid

\* ah.known[peer] = profile begins
KnownWriteBegin(g) ==
    /\ At(g, "WriteKnown") /\ ~goroutines[g].mid
    /\ goroutines' = [goroutines EXCEPT ![g].mid = TRUE]
    /\ audit' = [audit EXCEPT !.accesses = @ \cup
          {[by |-> FuncOf(goroutines[g]), kind |-> "write", held |-> HeldAs(g, "host"),
            overlap |-> WriteInProgress(g)]}]
    /\ UNCHANGED <<mu, mem>>

\* ah.known[peer] = profile ends
KnownWriteEnd(g) ==
    /\ At(g, "WriteKnown") /\ goroutines[g].mid
    /\ mem' = [mem EXCEPT !.known = MapPut(@, PeerKey, FuncOf(goroutines[g]))]
    /\ goroutines' = [goroutines EXCEPT ![g] = After(@)]
    /\ UNCHANGED <<mu, audit>>

\* ah.known[peer] and the range over ah.known
KnownRead(g) ==
    /\ At(g, "ReadKnown")
    /\ goroutines' = [goroutines EXCEPT ![g] = After(@)]
    /\ audit' = [audit EXCEPT !.accesses = @ \cup
          {[by |-> FuncOf(goroutines[g]), kind |-> "read", held |-> HeldAs(g, "host"),
            overlap |-> WriteInProgress(g)]}]
    /\ UNCHANGED <<mu, mem>>

\* TrustGraph.Apply, tg.scores[k] + delta: the read of the map
ApplyRead(g) ==
    /\ At(g, "Apply") /\ ~goroutines[g].mid
    /\ goroutines' = [goroutines EXCEPT ![g].mid = TRUE,
                                        ![g].tmp = ScoreAt(mem.scores, Edge)]
    /\ UNCHANGED <<mu, mem, audit>>

\* TrustGraph.Apply, tg.scores[k] = clamp(...): the write of the map
ApplyWrite(g) ==
    LET gr == goroutines[g]
    IN /\ At(g, "Apply") /\ gr.mid
       /\ mem' = [mem EXCEPT !.scores = MapPut(@, Edge, clamp(Add32(gr.tmp, gr.arg)))]
       /\ audit' = [audit EXCEPT !.applied = Append(@, gr.arg)]
       /\ goroutines' = [goroutines EXCEPT ![g] = After(@)]
       /\ UNCHANGED mu

\* the calls an application and the transport make
GoCalls ==
    {<<"OnHandshake", c>> : c \in Callbacks} \cup {<<"OnIntent", c>> : c \in Callbacks}
      \cup {<<"Register", h>> : h \in Handlers}
      \cup {<<op, "none">> : op \in {"Handshake", "handleIncomingHandshake",
                                     "resolvePeerID", "Negotiate"}}
      \cup {<<op, trustDelta(a)>> : op \in {"handleIncomingIntent", "SendIntent"},
                                    a \in BOOLEAN}

ConcNext ==
    \/ \E c \in GoCalls : Go(c[1], c[2])
    \/ \E g \in DOMAIN goroutines : Lock(g)
    \/ \E g \in DOMAIN goroutines : LockWait(g)
    \/ \E g \in DOMAIN goroutines : RLock(g)
    \/ \E g \in DOMAIN goroutines : Unlock(g)
    \/ \E g \in DOMAIN goroutines : RUnlock(g)
    \/ \E g \in DOMAIN goroutines : SetCb(g)
    \/ \E g \in DOMAIN goroutines : GetCb(g)
    \/ \E g \in DOMAIN goroutines : Call(g)
    \/ \E g \in DOMAIN goroutines : KnownWriteBegin(g)
    \/ \E g \in DOMAIN goroutines : KnownWriteEnd(g)
    \/ \E g \in DOMAIN goroutines : KnownRead(g)
    \/ \E g \in DOMAIN goroutines : ApplyRead(g)
    \/ \E g \in DOMAIN goroutines : ApplyWrite(g)

-----------------------------------------------------------------------------
(* Calls of RankCandidates *)

\* a profile as an application that ranks by embedding builds it
ProfileWithEmbedding(id, emb) ==
    [AgentID |-> id, DID |-> <<>>, Capabilities |-> <<>>, EmbeddingVector |-> emb]

RankEmbeddings ==
    {<<>>, <<Num(1), Num(0)>>, <<Num(2), Num(0)>>, <<Num(0), Num(1)>>,
     <<Num(9), Num(1)>>, <<Num(-1), Num(0)>>, <<NaN, Num(0)>>}
RankVectors == {<<Num(1), Num(0)>>, <<Num(0), Num(0)>>, <<>>}
\* candidate i is named after its place in the input
RankInputs ==
    UNION {{[i \in 1..n |-> ProfileWithEmbedding(<<"p", i>>, e[i])] :
              e \in [1..n -> RankEmbeddings]} : n \in 0..MaxCandidates}

RankInit == ranking = [called |-> FALSE, vec |-> <<>>, candidates |-> <<>>, out |-> <<>>]

\* one call of RankCandidates per behaviour
RankCall(vec, candidates) ==
    /\ ~ranking.called
    /\ \E out \in RankCandidates(vec, candidates) :
         ranking' = [called |-> TRUE, vec |-> vec, candidates |-> candidates,
                     out |-> out]

RankNext == \E vec \in RankVectors, candidates \in RankInputs : RankCall(vec, candidates)

-----------------------------------------------------------------------------
(* The eviction loop *)

\* the goroutine of StartEvictionLoop: pc is its position ("none" before
\* the call, "select" while it waits in the select statement, "returned"
\* after the return), tick says whether the channel t.C of its ticker
\* holds a value, done whether the channel done has been closed
LoopInit == evictLoop = [pc |-> "none", tick |-> FALSE, done |-> FALSE]

StartEvictionLoop ==
    /\ evictLoop.pc = "none"
    /\ evictLoop' = [evictLoop EXCEPT !.pc = "select"]
    /\ UNCHANGED regVars

\* the ticker puts a value in t.C, whose buffer holds one; it is stopped
\* by the deferred t.Stop()
TickerFire ==
    /\ evictLoop.pc = "select" /\ ~evictLoop.tick
    /\ evictLoop' = [evictLoop EXCEPT !.tick = TRUE]
    /\ UNCHANGED regVars

LoopEvictSkips ==
    /\ evictLoop.pc = "select" /\ evictLoop.tick
    /\ evictLoop' = [evictLoop EXCEPT !.tick = FALSE]
    /\ UNCHANGED regVars

\* case <-t.C: r.Evict()
LoopEvict ==
    /\ evictLoop.pc = "select" /\ evictLoop.tick
    /\ evictLoop' = [evictLoop EXCEPT !.tick = FALSE]
    /\ Evict

\* case <-done: return
LoopReturn ==
    /\ evictLoop.pc = "select" /\ evictLoop.done
    /\ evictLoop' = [evictLoop EXCEPT !.pc = "returned"]
    /\ UNCHANGED regVars

\* the caller closes the channel done
CloseDone ==
    /\ ~evictLoop.done
    /\ evictLoop' = [evictLoop EXCEPT !.done = TRUE]
    /\ UNCHANGED regVars

LoopNext ==
    \/ StartEvictionLoop
    \/ TickerFire
    \/ LoopEvict
    \/ LoopReturn
    \/ CloseDone
    \/ \E p \in RegProfiles, ttl \in RegTTLs : Announce(p, ttl) /\ UNCHANGED loopVars
    \/ \E id \in {"alpha", "beta"} : Remove(id) /\ UNCHANGED loopVars
    \/ Tick /\ UNCHANGED loopVars

-----------------------------------------------------------------------------
(* Specifications *)

vars == <<scores, got, nops, entries, now, found, handled,
          known, discovery, trust, onHandshake, onIntent, streams, invoked,
          lastCall, wire, handlers, registered, busCalls, busInvoked,
          wfPc, wfSteps, stepGo, results, firstErr, wfDone, wfRet, ranking,
          goroutines, mu, mem, audit, evictLoop>>

Init == TrustInit /\ RegInit /\ NegInit /\ HostInit /\ SigInit /\ CodecInit /\ BusInit
          /\ WorkflowInit /\ RankInit /\ ConcInit /\ LoopInit

SpecTrust == Init /\ [][TrustNext /\ UNCHANGED <<regVars, negVars, hostVars, sigVars, codecVars, busVars, wfVars, rankVars, concVars, loopVars>>]_vars

SpecRegistry == Init /\ [][RegNext /\ UNCHANGED <<trustVars, negVars, hostVars, sigVars, codecVars, busVars, wfVars, rankVars, concVars, loopVars>>]_vars

SpecNegotiation == Init /\ [][NegNext /\ UNCHANGED <<trustVars, regVars, hostVars, sigVars, codecVars, busVars, wfVars, rankVars, concVars, loopVars>>]_vars

SpecHandshake ==
    Init /\ [][HandshakeNext /\ UNCHANGED <<trustVars, regVars, negVars, sigVars, codecVars, busVars, wfVars, rankVars, concVars, loopVars>>]_vars

SpecIntent ==
    Init /\ [][IntentNext /\ UNCHANGED <<trustVars, regVars, negVars, sigVars, codecVars, busVars, wfVars, rankVars, concVars, loopVars>>]_vars

SpecSigning ==
    Init /\ [][SigNext /\ UNCHANGED <<trustVars, regVars, negVars, hostVars, codecVars, busVars, wfVars, rankVars, concVars, loopVars>>]_vars

SpecCodec ==
    Init /\ [][CodecNext /\ UNCHANGED <<trustVars, regVars, negVars, hostVars, sigVars, busVars, wfVars, rankVars, concVars, loopVars>>]_vars

SpecBus ==
    Init /\ [][BusNext /\ UNCHANGED <<trustVars, regVars, negVars, hostVars, sigVars,
                                      codecVars, wfVars, rankVars, concVars, loopVars>>]_vars

SpecWorkflow ==
    Init /\ [][WorkflowNext /\ UNCHANGED <<trustVars, regVars, negVars, sigVars,
                                           codecVars, busVars, rankVars, concVars, loopVars>>]_vars

SpecRanking ==
    Init /\ [][RankNext /\ UNCHANGED <<trustVars, regVars, negVars, hostVars, sigVars,
                                       codecVars, busVars, wfVars, concVars, loopVars>>]_vars

SpecConcurrency ==
    Init /\ [][ConcNext /\ UNCHANGED <<trustVars, regVars, negVars, hostVars, sigVars,
                                       codecVars, busVars, wfVars, rankVars, loopVars>>]_vars

SpecOutbound ==
    Init /\ [][OutboundNext /\ UNCHANGED <<trustVars, regVars, negVars, sigVars,
                                           codecVars, busVars, wfVars, rankVars,
                                           concVars, loopVars>>]_vars

SpecAnnounce ==
    Init /\ [][AnnounceNext /\ UNCHANGED <<trustVars, regVars, negVars, sigVars, codecVars, busVars, wfVars, rankVars, concVars, loopVars>>]_vars

LoopRest == <<trustVars, negVars, hostVars, sigVars, codecVars, busVars, wfVars, rankVars, concVars>>

SpecEvictionLoop == Init /\ [][LoopNext /\ UNCHANGED LoopRest]_vars

\* the runtime delivers the ticks of a running ticker, and a select whose
\* case is ready is eventually run with that case: the choice among the
\* ready cases is uniformly random
SpecEvictionLoopFair ==
    /\ SpecEvictionLoop
    /\ WF_vars(TickerFire /\ UNCHANGED LoopRest)
    /\ WF_vars(LoopEvict /\ UNCHANGED LoopRest)
    /\ WF_vars(LoopReturn /\ UNCHANGED LoopRest)

WorkflowRest == <<trustVars, regVars, negVars, sigVars, codecVars, busVars, rankVars, concVars, loopVars>>

\* the goroutines of a running workflow are scheduled: a started goroutine
\* runs, SendIntent returns with a reply or with the error of its deadline,
\* and wg.Wait returns once the counter is zero
SpecWorkflowFair ==
    /\ Init /\ [][WorkflowTerminationNext /\ UNCHANGED WorkflowRest]_vars
    /\ WF_vars(WorkflowProgress /\ UNCHANGED WorkflowRest)

-----------------------------------------------------------------------------
(* Claims *)

\* C1: after any sequence of Set and Apply calls with arbitrary float32
\* scores and deltas, every stored score and every value returned by Get
\* lies in [0,1], and Get on an edge never written returns 0.
C1_ScoresInUnitInterval ==
    /\ \A k \in DOMAIN scores : InUnit(scores[k])
    /\ got.called => InUnit(got.val)
    /\ (got.called /\ got.absent) => got.val = Zero32

\* C2: FindByCapability, FindByDID and All never return a profile whose
\* entry has a non-zero expiry earlier than the time of the call, whether or
\* not Evict has run since the entry expired.
C2_NoExpiredProfileReturned ==
    found.op \in {"FindByCapability", "FindByDID", "All"} =>
        \A i \in DOMAIN found.res :
            found.exp[i] = ZeroTime \/ found.exp[i] >= found.at

\* C2 witness: a query ran while an expired entry was still in the registry
\* and returned another, live, entry
C2_Witness ==
    /\ found.op \in {"FindByCapability", "FindByDID", "All"}
    /\ found.at = now
    /\ Len(found.res) > 0
    /\ \E k \in DOMAIN entries : isExpired(entries[k], now)

\* C8: the default handler accepts exactly when every required capability
\* of the intent is in the agent's capability list (string equality); an
\* intent that requires nothing is accepted; on rejection the reason names
\* every missing capability.
C8_AcceptedIffAllCapabilitiesPresent ==
    handled.called =>
        LET req == handled.intent.Capabilities
            have == {handled.agent.Capabilities[j] : j \in DOMAIN handled.agent.Capabilities}
            r == handled.resp
        IN /\ r.Accepted <=> (\A i \in DOMAIN req : req[i] \in have)
           /\ (Len(req) = 0 => r.Accepted)
           /\ ~r.Accepted =>
                 \A i \in DOMAIN req :
                     req[i] \notin have => \E j \in DOMAIN r.Reason : r.Reason[j] = req[i]

\* C8 witness: an intent with two required capabilities of which the agent
\* has one was rejected
C8_Witness ==
    /\ handled.called
    /\ ~handled.resp.Accepted
    /\ Len(handled.intent.Capabilities) = 2
    /\ \E i \in DOMAIN handled.intent.Capabilities :
          \E j \in DOMAIN handled.agent.Capabilities :
              handled.agent.Capabilities[j] = handled.intent.Capabilities[i]

\* C9: for an accepted intent with id I and required capabilities c1..cn
\* the workflow is parse_intent:I, execute:c1, ..., execute:cn,
\* return_result:I (n+2 steps); for a rejected intent it is empty.
C9_WorkflowSteps ==
    handled.called =>
        LET req == handled.intent.Capabilities
            w == handled.resp.WorkflowSteps
            n == Len(req)
        IN IF handled.resp.Accepted
           THEN /\ Len(w) = n + 2
                /\ w[1] = <<"parse_intent:", handled.intent.ID>>
                /\ \A i \in 1..n : w[i + 1] = <<"execute:", req[i]>>
                /\ w[n + 2] = <<"return_result:", handled.intent.ID>>
           ELSE w = <<>>

\* C9 witness: an intent with two distinct required capabilities was accepted
C9_Witness ==
    /\ handled.called
    /\ handled.resp.Accepted
    /\ Len(handled.intent.Capabilities) = 2
    /\ handled.intent.Capabilities[1] # handled.intent.Capabilities[2]

\* C10: the trust_delta of a response of the default handler is +0.05
\* exactly when accepted and -0.02 exactly when rejected.
C10_TrustDelta ==
    handled.called =>
        /\ handled.resp.TrustDelta = Num(5) <=> handled.resp.Accepted
        /\ handled.resp.TrustDelta = Num(-2) <=> ~handled.resp.Accepted

\* C10 witness: a rejected intent
C10_Witness ==
    /\ handled.called
    /\ ~handled.resp.Accepted
    /\ handled.resp.TrustDelta = Num(-2)

-----------------------------------------------------------------------------
(* Claims about the host *)

\* the validation of H2: the key hashes to the suffix of the DID and the
\* challenge_response is a signature, under that key, of the nonce of H1
H2Valid(nonce, m) ==
    /\ Len(m.DID) = 5 /\ SubSeq(m.DID, 1, 4) = <<"did", ":", "symplex", ":">>
    /\ m.DID[5] = HashHex(m.PublicKey)
    /\ m.PublicKey \in Keys
    /\ m.ChallengeResponse = Ed25519Sign(m.PublicKey, nonce)

\* C3: Handshake returns success only if the H2 it received passes
\* validation (binding and signature of the nonce of H1); for every other
\* H2, also one without challenge_response, it returns an error.
C3_HandshakeSucceedsOnlyOnValidH2 ==
    \A sid \in DOMAIN streams :
        (streams[sid].kind = "handshake" /\ streams[sid].ret = "ok") =>
            /\ streams[sid].resp.ok
            /\ streams[sid].resp.type = MsgHandshake
            /\ H2Valid(streams[sid].nonce,
                       DecodeHandshakeMessage(streams[sid].resp.payload))

\* the verifying key of an H1 does not hash to the suffix of its DID
BindingMismatch(m) ==
    \/ Len(m.DID) < 5
    \/ SubSeq(m.DID, 5, Len(m.DID)) # <<HashHex(m.PublicKey)>>

\* C4: on the responder, an inbound H1 whose verifying key does not hash
\* to the suffix of its DID leads to no H2 being written and to no change
\* of the cached peers or of the discovery registry, with the default
\* responder and with a registered handshake callback.
C4_NoResponseOnBindingMismatch ==
    [][\A sid \in DOMAIN streams :
          (/\ streams[sid].to \in Honest
           /\ streams[sid].req.type = MsgHandshake /\ streams[sid].req.ok
           /\ BindingMismatch(DecodeHandshakeMessage(streams[sid].req.payload))
           /\ streams[sid].handled = "pending"
           /\ streams'[sid].handled # "pending")
          => (/\ streams'[sid].handled = "dropped"
              /\ known' = known
              /\ discovery' = discovery)]_vars

\* C5: a host that has completed a handshake with a sender invokes neither
\* the intent callback nor the default negotiation handler for an intent of
\* that sender whose signature does not verify over id and payload.
C5_TamperedIntentNotHandled ==
    \A r \in invoked :
        LET st == streams[r.sid]
        IN (r.knownSender /\ st.from \in Honest) =>
              Ed25519Verify(LocalAgent(st.from).key,
                            Concat(st.sent.ID, st.sent.Payload), st.sent.Signature)

\* the registry reg holds agent id with exactly the capabilities caps,
\* for good
HoldsPermanently(reg, id, caps) ==
    /\ id \in DOMAIN reg
    /\ reg[id].profile.Capabilities = caps
    /\ reg[id].expiresAt = ZeroTime

\* C6: when the Handshake of an honest initiator with an honest responder
\* returns success, the initiator's registry holds the responder's agent id
\* with exactly the capabilities of H2, and the responder, which has
\* answered by then, held from its answer on the initiator's agent id with
\* exactly the capabilities of H1; both entries are permanent.
C6_HandshakeRegistersBothSides ==
    [][\A sid \in DOMAIN streams :
          (streams[sid].kind = "handshake" /\ streams[sid].to \in Honest) =>
              /\ (streams[sid].ret = "pending" /\ streams'[sid].ret = "ok") =>
                    /\ streams[sid].handled = "replied"
                    /\ LET h2 == DecodeHandshakeMessage(streams[sid].resp.payload)
                       IN HoldsPermanently(discovery'[streams[sid].from],
                                           h2.AgentID, h2.Capabilities)
              /\ (streams[sid].handled = "pending" /\ streams'[sid].handled = "replied") =>
                    HoldsPermanently(discovery'[streams[sid].to],
                                     streams[sid].sent.AgentID,
                                     streams[sid].sent.Capabilities)]_vars

\* C6 witness: a handshake between the honest hosts has returned success
\* and both registries hold the other side
C6_Witness ==
    \E sid \in DOMAIN streams :
        /\ streams[sid].kind = "handshake" /\ streams[sid].to \in Honest
        /\ streams[sid].ret = "ok"
        /\ HoldsPermanently(discovery[streams[sid].from],
                            LocalAgent(streams[sid].to).ID,
                            LocalAgent(streams[sid].to).Capabilities)
        /\ HoldsPermanently(discovery[streams[sid].to],
                            LocalAgent(streams[sid].from).ID,
                            LocalAgent(streams[sid].from).Capabilities)

\* C7: once the dispatcher of a host has taken the CapabilityAnnouncement
\* frame of an announcing host, the registry of the receiver returns the
\* announcer for every capability of the announcer.
C7_AnnouncementRegisters ==
    \A sid \in DOMAIN streams :
        (/\ streams[sid].kind = "capability" /\ streams[sid].to \in Honest
         /\ streams[sid].handled # "pending") =>
            \A i \in DOMAIN streams[sid].sent.Capabilities :
                \A o \in RangeOrders(DOMAIN discovery[streams[sid].to]) :
                    \E j \in DOMAIN FindByCapabilityIn(discovery[streams[sid].to], now, o,
                                        <<streams[sid].sent.Capabilities[i]>>) :
                        FindByCapabilityIn(discovery[streams[sid].to], now, o,
                            <<streams[sid].sent.Capabilities[i]>>)[j].profile.AgentID
                          = streams[sid].sent.AgentID

\* the value of the edge from -> to in the ledger sc after delta was added
EdgeAfter(sc, from, to, delta) ==
    clamp(Add32(ScoreAt(sc, trustKey(from, to)), delta))

-----------------------------------------------------------------------------
(* Claims about signatures *)

\* C12: CreateIntent returns either an intent whose signature is non-empty
\* and verifies under the sender's key over id followed by payload, or,
\* exactly when the sender has no signing key or the random source fails,
\* an error and no intent; it never returns an unsigned intent.
C12_CreateIntentSignsOrFails ==
    lastCall.op = "CreateIntent" =>
        /\ lastCall.res.err <=> (~lastCall.sender.hasPriv \/ lastCall.src = "fail")
        /\ lastCall.res.err => lastCall.res.intent = <<>>
        /\ ~lastCall.res.err =>
              /\ Len(lastCall.res.intent.Signature) > 0
              /\ lastCall.res.intent.Payload = lastCall.payload
              /\ Ed25519Verify(lastCall.sender.key,
                               Concat(lastCall.res.intent.ID, lastCall.res.intent.Payload),
                               lastCall.res.intent.Signature)

\* C12 witness: a sender without signing key, with a working random source,
\* got an error
C12_Witness ==
    /\ lastCall.op = "CreateIntent"
    /\ ~lastCall.sender.hasPriv /\ lastCall.src # "fail"
    /\ lastCall.res.err

\* C13: every NegotiationResponse returned by the default handler, accepted
\* or rejected and for every local agent, carries a non-empty signature that
\* verifies under the responder's key over request_id followed by reason.
C13_DefaultHandlerAlwaysSigns ==
    handled.called =>
        /\ Len(handled.resp.Signature) > 0
        /\ Ed25519Verify(handled.agent.key,
                         Concat(handled.resp.RequestID, handled.resp.Reason),
                         handled.resp.Signature)

\* C13 as amended: the response of an agent that holds a signing key carries
\* a non-empty signature that verifies under the responder's key over
\* request_id followed by reason; the response of an agent without signing
\* key is returned all the same, with an empty signature.
C13_DefaultHandlerSignsWithKey ==
    handled.called =>
        IF handled.agent.hasPriv
        THEN /\ Len(handled.resp.Signature) > 0
             /\ Ed25519Verify(handled.agent.key,
                              Concat(handled.resp.RequestID, handled.resp.Reason),
                              handled.resp.Signature)
        ELSE handled.resp.Signature = <<>>

\* C13 witness: an agent with a signing key rejected an intent and signed
\* the response
C13_Witness ==
    /\ handled.called
    /\ handled.agent.hasPriv
    /\ ~handled.resp.Accepted
    /\ Len(handled.resp.Signature) > 0

\* C14: the message obtained by encoding a signed IntentMessage or
\* NegotiationResponse and decoding the bytes carries the same non-empty
\* signature, which verifies under the signer's key against the decoded
\* id and payload (or request_id and reason).
C14_SignatureSurvivesRoundTrip ==
    (wire.op = "RoundTrip" /\ wire.type \in {MsgIntent, MsgNegotiation}
       /\ Len(wire.m.Signature) > 0) =>
        /\ ~wire.res.err
        /\ wire.res.msg.Signature = wire.m.Signature
        /\ Len(wire.res.msg.Signature) > 0
        /\ Ed25519Verify(wire.key,
                         IF wire.type = MsgIntent
                         THEN Concat(wire.res.msg.ID, wire.res.msg.Payload)
                         ELSE Concat(wire.res.msg.RequestID, wire.res.msg.Reason),
                         wire.res.msg.Signature)

\* the bytes a signature of the verified message covers: id followed by
\* payload for an intent, request_id followed by reason for a response
SignedBytes(op, m) ==
    IF op = "VerifyIntentSignature" THEN Concat(m.ID, m.Payload)
    ELSE Concat(m.RequestID, m.Reason)

\* C15: VerifyIntentSignature(intent, key) is true exactly when the
\* signature is empty or is a signature of id followed by payload made with
\* the signing key that matches key; so for a signed intent a payload
\* changed after signing, or the key of another agent, gives false.
\* VerifyResponseSignature is the same over request_id followed by reason.
C15_VerifyIffEmptyOrValid ==
    lastCall.op \in {"VerifyIntentSignature", "VerifyResponseSignature"} =>
        LET m == lastCall.m
            data == SignedBytes(lastCall.op, m)
            changed == data # SignedBytes(lastCall.op, lastCall.orig)
        IN /\ lastCall.res <=>
                 \/ m.Signature = <<>>
                 \/ \E k \in Keys : k = lastCall.key /\ m.Signature = Ed25519Sign(k, data)
           /\ (m.Signature = lastCall.orig.Signature
                 /\ (changed \/ lastCall.key # lastCall.signer.key)) => ~lastCall.res
           /\ (m = lastCall.orig /\ lastCall.key = lastCall.signer.key) => lastCall.res

\* C15 witness: an intent whose payload was changed after signing was
\* verified with the key of its signer and refused
C15_Witness ==
    /\ lastCall.op = "VerifyIntentSignature"
    /\ lastCall.m.Signature = lastCall.orig.Signature
    /\ lastCall.m.Payload # lastCall.orig.Payload
    /\ lastCall.key = lastCall.signer.key
    /\ ~lastCall.res

-----------------------------------------------------------------------------
(* Claims about framing and the codec *)

\* C16: for every type byte t and every payload p, the empty one included,
\* Unframe(Frame(t, p)) returns (t, p) without error and the 4-byte
\* big-endian prefix of the frame equals 1 + len(p).
C16_FrameRoundTrip ==
    wire.op = "Frame" =>
        /\ wire.res = Decoded(wire.type, wire.payload)
        /\ BLen(wire.frame) = WAdd(WideOf(5), BLen(wire.payload))
        /\ Uint32(wire.frame) = WAdd(WideOf(1), BLen(wire.payload))

\* C16 as amended: the same for every payload of fewer than 2^32 - 1 bytes.
C16_FrameRoundTripWithinPrefix ==
    (wire.op = "Frame" /\ WLess(BLen(wire.payload), Wide(65535, 65535))) =>
        /\ wire.res = Decoded(wire.type, wire.payload)
        /\ BLen(wire.frame) = WAdd(WideOf(5), BLen(wire.payload))
        /\ Uint32(wire.frame) = WAdd(WideOf(1), BLen(wire.payload))

\* C16 witness: the empty payload was framed and unframed, and so was a
\* payload whose length needs all four bytes of the prefix
C16_Witness ==
    /\ wire.op = "Frame"
    /\ wire.res.kind = "ok"
    /\ \/ BLen(wire.payload) = WideOf(0) /\ wire.type = 255
       \/ BLen(wire.payload) = Wide(65535, 65534)

\* the body length that the first four bytes of an input advertise
Advertised(input) == Uint32(Slice(input, 0, WideOf(4)))

\* C17: Unframe and readMsg return an error, without a crash and without a
\* message, for an input shorter than 5 bytes, for an advertised body
\* length less than 1 and for an advertised body length of more than 4 MiB.
C17_DecodersRejectBadLengths ==
    (/\ wire.op \in {"Unframe", "readMsg"}
     /\ \/ WLess(BLen(wire.input), WideOf(5))
        \/ WLess(Advertised(wire.input), WideOf(1))
        \/ WLess(MaxFrameBytes, Advertised(wire.input)))
    => wire.res.kind = "err"

\* C18: for each of the five kinds of wire message and every message m of
\* the kind, decoding the bytes that encoding m produced gives a message
\* equal to m in every field (a map is compared as a map, a field at its
\* default comes back at its default).
C18_EncodeDecodeRoundTrip ==
    wire.op = "RoundTrip" =>
        /\ ~wire.res.err
        /\ wire.res.msg = wire.m

-----------------------------------------------------------------------------
(* Claims about the negotiation bus *)

\* the Register calls for agent id among the first n calls
RegisteredFor(id, n) ==
    SelectSeq(SubSeq(registered, 1, n), LAMBDA e : e.id = id)

\* the handler invocations made for the i-th Negotiate call
InvokedFor(i) == SelectSeq(busInvoked, LAMBDA e : e.call = i)

\* C19: Negotiate for a target that was never registered returns an error
\* and no response and invokes no handler; for a registered target it
\* invokes the handler most recently registered under that agent id, that
\* one only and once, and returns the result of that handler.
C19_NegotiateDispatch ==
    \A i \in DOMAIN busCalls :
        busCalls[i].pc = "done" =>
            LET c == busCalls[i]
                regs == RegisteredFor(c.target, c.at)
            IN IF Len(regs) = 0
               THEN /\ c.res.err
                    /\ c.res.resp = <<>>
                    /\ \A j \in DOMAIN busInvoked : busInvoked[j].call # i
               ELSE /\ Len(InvokedFor(i)) = 1
                    /\ InvokedFor(i)[1].h = regs[Len(regs)].h
                    /\ c.res = HandlerResult(regs[Len(regs)].h, c.intent)

\* C19 witness: a handler was replaced by another under the same agent id
\* and a Negotiate call for that id has then returned a response
C19_Witness ==
    /\ \E i \in DOMAIN busCalls :
          /\ busCalls[i].pc = "done"
          /\ Len(RegisteredFor(busCalls[i].target, busCalls[i].at)) = 2
          /\ RegisteredFor(busCalls[i].target, busCalls[i].at)[1].h
                # RegisteredFor(busCalls[i].target, busCalls[i].at)[2].h
          /\ ~busCalls[i].res.err

-----------------------------------------------------------------------------
(* Claims about the workflow orchestrator *)

\* C20: for every list of steps and every interleaving of the step
\* goroutines, RunWorkflow returns a slice as long as the list in which the
\* result at index i carries the identifier of step i.
C20_ResultsAlignedWithSteps ==
    wfPc = "returned" =>
        /\ Len(wfRet.results) = Len(wfSteps)
        /\ \A i \in DOMAIN wfSteps : wfRet.results[i].StepID = wfSteps[i].ID

\* C20 witness: a workflow of two steps with different identifiers has
\* returned, the result of the second step was written first, and one step
\* got a response while the other failed
C20_Witness ==
    /\ wfPc = "returned"
    /\ Len(wfSteps) = 2
    /\ wfSteps[1].ID # wfSteps[2].ID
    /\ wfDone = <<2, 1>>
    /\ \E i \in DOMAIN stepGo : ~stepGo[i].err
    /\ \E i \in DOMAIN stepGo : stepGo[i].err

\* C21: when RunWorkflow returns, every step has been dispatched and
\* recorded; a step whose executeStep failed is recorded at its index with
\* accepted = false and the error message as reason, every other step with
\* the result of its executeStep; the returned error is non-nil exactly
\* when some step failed.
C21_FailedStepRecorded ==
    wfPc = "returned" =>
        /\ \A i \in DOMAIN wfSteps :
              /\ stepGo[i].pc = "done"
              /\ IF stepGo[i].err
                 THEN /\ wfRet.results[i].StepID = wfSteps[i].ID
                      /\ wfRet.results[i].Accepted = FALSE
                      /\ wfRet.results[i].Reason = stepGo[i].msg
                      /\ stepGo[i].msg # <<>>
                 ELSE wfRet.results[i] = stepGo[i].r
        /\ (wfRet.err # <<>>) <=> (\E i \in DOMAIN wfSteps : stepGo[i].err)

\* C21 witness: a workflow has returned in which the first step found no
\* resolvable peer and the second step, dispatched all the same, was accepted
C21_Witness ==
    /\ wfPc = "returned"
    /\ Len(wfSteps) = 2
    /\ stepGo[1].err
    /\ stepGo[1].msg[1] = "peerID not found for agentID "
    /\ ~stepGo[2].err
    /\ wfRet.results[2].Accepted
    /\ wfRet.err # <<>>

-----------------------------------------------------------------------------
(* Claims about ranking *)

ScoreIn(c) == CosineSimilarity(ranking.vec, EmbeddingOf(c))
PlaceIn(seq, c) == CHOOSE i \in DOMAIN seq : seq[i] = c

\* C22: RankCandidates returns a permutation of its input, ordered by
\* non-increasing cosine similarity to the intent vector, in which two
\* profiles of equal score keep the relative order they had in the input.
C22_RankStableSorted ==
    LET out == ranking.out
        cands == ranking.candidates
    IN /\ Len(out) = Len(cands)
       /\ \A i \in DOMAIN cands : \E j \in DOMAIN out : out[j] = cands[i]
       /\ \A i, j \in DOMAIN out :
             i < j => /\ ~ScoreGt(ScoreIn(out[j]), ScoreIn(out[i]))
                      /\ ScoreEq(ScoreIn(out[i]), ScoreIn(out[j]))
                           => PlaceIn(cands, out[i]) < PlaceIn(cands, out[j])

-----------------------------------------------------------------------------
(* Claims about the discovery registry *)

\* the entries of reg that are not expired at t and declare every tag of req
LiveWithAll(reg, t, req) ==
    {k \in DOMAIN reg :
        /\ reg[k].expiresAt = ZeroTime \/ reg[k].expiresAt >= t
        /\ \A i \in DOMAIN req :
              \E j \in DOMAIN reg[k].profile.Capabilities :
                  reg[k].profile.Capabilities[j] = req[i]}

\* C23: after any sequence of Announce, Remove and Evict, a call of
\* FindByCapability returns exactly the profiles of the entries that are
\* present, not expired and declare every required tag (all live profiles
\* when no tag is required), each once.
C23_FindByCapabilityExact ==
    [][(found'.op = "FindByCapability" /\ found' # found) =>
          LET res == found'.res
          IN /\ {res[i] : i \in DOMAIN res}
                  = {entries[k].profile : k \in LiveWithAll(entries, now, found'.req)}
             /\ \A i, j \in DOMAIN res : i # j => res[i] # res[j]]_vars

\* C23 witness: after the clock has advanced, a query for two tags returned
\* one profile while the registry also held a live entry that lacks one of
\* the tags
C23_Witness ==
    /\ found.op = "FindByCapability"
    /\ found.at = now
    /\ now > 1
    /\ Len(found.req) = 2
    /\ Len(found.res) = 1
    /\ \E k \in DOMAIN entries : k \notin LiveWithAll(entries, now, found.req)
                                  /\ ~isExpired(entries[k], now)

\* the entries of reg whose expiry is non-zero and at or before t
DueIn(reg, t) == {k \in DOMAIN reg : reg[k].expiresAt # ZeroTime /\ reg[k].expiresAt <= t}

\* C24: Evict removes every entry whose expiry is non-zero and at or before
\* the current time, removes no permanent entry and no entry whose expiry
\* is in the future, and returns the number of entries it removed.
C24_EvictRemovesDueEntries ==
    [][(found'.op = "Evict" /\ found' # found) =>
          /\ DOMAIN entries' = (DOMAIN entries) \ DueIn(entries, now)
          /\ \A k \in DOMAIN entries' : entries'[k] = entries[k]
          /\ found'.n = Cardinality(DOMAIN entries) - Cardinality(DOMAIN entries')]_vars

-----------------------------------------------------------------------------
(* Claims about the handshake engine *)

\* the challenge_response of m is a signature of something else than the
\* nonce, or a signature made with another key than the one m carries
ForeignSignature(nonce, m) ==
    LET cr == m.ChallengeResponse
    IN /\ Len(cr) = 3 /\ cr[1] = "sig"
       /\ cr[3] # nonce \/ cr[2] # m.PublicKey

\* C25: FinishHandshake(nonce, H2) fails for every H2 whose
\* challenge_response signs something else than the nonce of this handshake
\* (an H2 replayed from an earlier handshake, for one) or was made with
\* another key than the verifying key in H2; Handshake then returns an error.
C25_ReplayedResponseRejected ==
    \A sid \in DOMAIN streams :
        LET st == streams[sid]
        IN (/\ st.kind = "handshake" /\ st.ret # "pending"
            /\ st.handled = "replied" /\ st.resp.ok /\ st.resp.type = MsgHandshake
            /\ ForeignSignature(st.nonce, DecodeHandshakeMessage(st.resp.payload)))
           => /\ ~FinishHandshake(st.nonce, DecodeHandshakeMessage(st.resp.payload))
              /\ st.ret = "err"

\* C25 witness: a handshake returned an error on the H2 with which an
\* earlier handshake had succeeded
C25_Witness ==
    \E sid, j \in DOMAIN streams :
        /\ j < sid
        /\ streams[j].kind = "handshake" /\ streams[j].ret = "ok"
        /\ streams[sid].kind = "handshake" /\ streams[sid].ret = "err"
        /\ streams[sid].resp = streams[j].resp
        /\ H2Valid(streams[j].nonce, DecodeHandshakeMessage(streams[j].resp.payload))

-----------------------------------------------------------------------------
(* Claims about concurrency *)

\* the score after the deltas ds applied one after another in the order o
RECURSIVE AppliedInOrder(_, _, _)
AppliedInOrder(ds, o, n) ==
    IF n = 0 THEN Zero32 ELSE clamp(Add32(AppliedInOrder(ds, o, n - 1), ds[o[n]]))

\* C26: when goroutines of one host (stream handlers, SendIntent calls)
\* apply deltas to the same edge at once, the score they leave is the
\* result of applying those deltas one after another in some order.
C26_TrustUpdatesSerialised ==
    (\A g \in DOMAIN goroutines : Finished(goroutines[g])) =>
        \E o \in RangeOrders(DOMAIN audit.applied) :
            ScoreAt(mem.scores, Edge) = AppliedInOrder(audit.applied, o, Len(audit.applied))

\* C27: every write of the cached-peers map is made with the host lock
\* held exclusively and every read with the host lock held, shared or
\* exclusively, so that no access overlaps a write of another goroutine.
C27_KnownUnderLock ==
    \A a \in audit.accesses :
        /\ a.kind = "write" => a.held = "exclusive"
        /\ a.kind = "read" => a.held # "none"
        /\ ~a.overlap

\* a goroutine that cannot take its next step: it waits for a lock
Blocked(g) ==
    LET m == StmtOf(goroutines[g]).m
    IN \/ At(g, "Lock") /\ ~Free(mu[m])
       \/ At(g, "RLock") /\ (mu[m].writer # 0 \/ mu[m].waiting # {})

\* C28: no callback and no handler is called while its caller holds a
\* lock, and the goroutines never all wait for locks, also when a callback
\* calls OnHandshake or OnIntent of the same host and a handler calls
\* Register or Negotiate of the same bus.
C28_NoCallUnderLock ==
    /\ \A c \in audit.calls : c.held = {}
    /\ (\E g \in DOMAIN goroutines : ~Finished(goroutines[g])) =>
           \E g \in DOMAIN goroutines : ~Finished(goroutines[g]) /\ ~Blocked(g)

\* C28 witness: Negotiate has returned from a handler that called Register
\* of the same bus, and the handler was called with no lock held
C28_Witness ==
    /\ \E g \in DOMAIN goroutines :
          /\ Finished(goroutines[g])
          /\ goroutines[g].op = "Negotiate"
          /\ goroutines[g].cb = "Register"
    /\ [by |-> "Negotiate", held |-> {}] \in audit.calls
    /\ mem.handler = "plain"

-----------------------------------------------------------------------------
(* Claims about the dispatcher and the outbound calls *)

\* C29: an inbound stream whose frame has a type other than Handshake,
\* Intent and CapabilityAnnouncement (Negotiation, Workflow, an unassigned
\* value) is dropped: no handler or callback runs, nothing is written back,
\* and registry, ledger and cached peers stay as they are.
C29_UnknownTypeDropped ==
    [][\A sid \in DOMAIN streams :
          (/\ streams[sid].to \in Honest
           /\ streams[sid].handled = "pending"
           /\ streams[sid].req.type \notin {MsgHandshake, MsgIntent, MsgCapability}
           /\ streams'[sid].handled # "pending")
          => /\ streams'[sid].handled = "dropped"
             /\ streams'[sid].resp = NoFrame
             /\ invoked' = invoked
             /\ known' = known /\ discovery' = discovery /\ trust' = trust]_vars

\* C29 witness: the dispatcher of a host has taken a Negotiation frame and
\* a frame of the unassigned type 9
C29_Witness ==
    \E i, j \in DOMAIN streams :
        /\ streams[i].to \in Honest /\ streams[j].to \in Honest
        /\ streams[i].req = FrameOf(MsgNegotiation, <<>>)
        /\ streams[j].req = FrameOf(9, <<>>)
        /\ streams[i].handled = "dropped" /\ streams[j].handled = "dropped"

\* the reply a Handshake or SendIntent call found on its stream is no
\* reply (the peer closed the stream, the deadline passed), does not
\* decode, or has another type than the call expects
BadReply(st) ==
    \/ st.handled # "replied"
    \/ ~st.resp.ok
    \/ st.resp.type # (IF st.kind = "handshake" THEN MsgHandshake ELSE MsgNegotiation)

\* C30: a Handshake or SendIntent call that finds a reply of an unexpected
\* type, a reply that does not decode, or no reply, returns an error and
\* leaves the trust ledger, the cached peers and the registry as they were.
C30_FailedCallChangesNothing ==
    [][\A sid \in DOMAIN streams :
          (/\ streams[sid].kind \in {"handshake", "intent"}
           /\ streams[sid].from \in Honest
           /\ streams[sid].ret = "pending" /\ streams'[sid].ret # "pending"
           /\ BadReply(streams[sid]))
          => /\ streams'[sid].ret = "err"
             /\ trust' = trust /\ known' = known /\ discovery' = discovery]_vars

\* C30 witness: after a handshake that cached a peer, a SendIntent call
\* returned an error on a reply of the wrong type, on a reply that does not
\* decode, or on a closed stream
C30_Witness ==
    \E i, j \in DOMAIN streams :
        /\ streams[i].kind = "handshake" /\ streams[i].ret = "ok"
        /\ streams[j].kind = "intent" /\ streams[j].ret = "err"
        /\ BadReply(streams[j])
        /\ known[streams[j].from] # <<>>

\* C31: after a host has handled an inbound intent and written a
\* response r, the edge from its own DID to the DID of the intent holds
\* clamp(previous value + r.trust_delta); when the intent is dropped the
\* ledger of the host is unchanged.
C31_ResponderAppliesTrustDelta ==
    [][\A sid \in DOMAIN streams :
          (/\ streams[sid].to \in Honest
           /\ streams[sid].req.type = MsgIntent
           /\ streams[sid].handled = "pending" /\ streams'[sid].handled # "pending")
          => LET h == streams[sid].to
                 local == LocalAgent(h).DID
                 intent == DecodeIntentMessage(streams[sid].req.payload)
                 r == DecodeNegotiationResponse(streams'[sid].resp.payload)
                 edge == trustKey(local, intent.DID)
             IN /\ streams'[sid].handled = "replied" =>
                      /\ edge \in DOMAIN trust'[h]
                      /\ trust'[h][edge] = EdgeAfter(trust[h], local, intent.DID, r.TrustDelta)
                /\ streams'[sid].handled = "dropped" => trust'[h] = trust[h]]_vars

\* C31 witness: a host answered an intent with a rejection on an edge that
\* an earlier acceptance had raised, and dropped no intent since
C31_Witness ==
    \E i, j \in DOMAIN streams :
        /\ i < j
        /\ streams[i].to = "B" /\ streams[j].to = "B"
        /\ streams[i].req.type = MsgIntent /\ streams[j].req.type = MsgIntent
        /\ streams[i].handled = "replied" /\ streams[j].handled = "replied"
        /\ DecodeNegotiationResponse(streams[i].resp.payload).Accepted
        /\ ~DecodeNegotiationResponse(streams[j].resp.payload).Accepted
        /\ TrustGet(trust["B"], LocalAgent("B").DID,
                    DecodeIntentMessage(streams[j].req.payload).DID) = Num(3)

-----------------------------------------------------------------------------
(* Claims about the eviction loop *)

\* the entry of agent id with expiry e is in the registry and expired
ExpiredEntry(id, e) ==
    /\ id \in DOMAIN entries
    /\ entries[id].expiresAt = e
    /\ isExpired(entries[id], now)

\* C32: once the channel done is closed the eviction loop eventually
\* returns, and while the loop runs and done is not closed every expired
\* entry is eventually removed, the ticks of the ticker and the cases of
\* the select being scheduled fairly.
C32_EvictionLoopTerminatesAndSweeps ==
    /\ (evictLoop.pc = "select" /\ evictLoop.done) ~> (evictLoop.pc = "returned")
    /\ \A id \in {"alpha", "beta"} : \A e \in 1..(MaxTime + 2) :
          (evictLoop.pc = "select" /\ ExpiredEntry(id, e))
             ~> (~ExpiredEntry(id, e) \/ evictLoop.done)

\* C32 witness: the loop has returned after a sweep of its own that removed
\* an expired entry
C32_Witness ==
    /\ evictLoop.pc = "returned"
    /\ found.op = "Evict" /\ found.n >= 1

-----------------------------------------------------------------------------
(* Claims about the termination of RunWorkflow *)

\* C33: a call of RunWorkflow returns, for any number of steps, zero
\* included, when the send of each step completes or fails by its
\* deadline; it returns only after every step goroutine has recorded its
\* result, so that no slot of the returned slice is unwritten.
C33_RunWorkflowTerminates ==
    /\ (wfPc = "running") ~> (wfPc = "returned")
    /\ [](wfPc = "returned" =>
             /\ Len(wfRet.results) = Len(wfSteps)
             /\ \A i \in DOMAIN wfSteps :
                   /\ stepGo[i].pc = "done"
                   /\ wfRet.results[i] # ZeroStepResult
                   /\ wfRet.results[i].StepID = wfSteps[i].ID)

\* C33 witness: a workflow of two steps has returned, one step answered by
\* its peer and one failed
C33_Witness ==
    /\ wfPc = "returned" /\ Len(wfSteps) = 2
    /\ \E i, j \in DOMAIN stepGo :
          /\ ~stepGo[i].err /\ stepGo[i].sid # 0
          /\ stepGo[j].err

-----------------------------------------------------------------------------
(* Claims about profiles without an embedding *)

\* C34: in the output of RankCandidates no profile that lacks an embedding
\* comes before a profile that has one.
C34_NoEmbeddingRankedLast ==
    \A i, j \in DOMAIN ranking.out :
        i < j => ~(/\ EmbeddingOf(ranking.out[i]) = <<>>
                   /\ EmbeddingOf(ranking.out[j]) # <<>>)

-----------------------------------------------------------------------------
(* Claims about the responder of a handshake *)

\* the DIDs whose signing key the transport peer p holds: a peer can prove
\* possession of no other
ProvableBy(p) ==
    IF p \in Honest THEN {LocalAgent(p).DID} ELSE {DIDString("kM")}

\* C35: a host that answers handshakes caches the profile of an initiator
\* and inserts it into its registry only after the initiator has proven
\* that it holds the signing key of the DID it presents: every profile the
\* host holds for a transport peer carries a DID that peer can sign for.
C35_ResponderCachesProvenInitiator ==
    \A h \in Callees :
        /\ \A p \in DOMAIN known[h] : known[h][p].DID \in ProvableBy(p)
        /\ \A id \in DOMAIN discovery[h] :
              \E p \in Peers : discovery[h][id].profile.DID \in ProvableBy(p)
                                 /\ p \in DOMAIN known[h]

-----------------------------------------------------------------------------
(* Claims about the trust edge of an outbound intent *)

\* the edges on which the ledgers before and after differ
ChangedEdges(before, after) ==
    {k \in DOMAIN before \cup DOMAIN after :
        \/ k \notin DOMAIN before
        \/ k \notin DOMAIN after
        \/ before[k] # after[k]}

\* C36: a call of SendIntent to a peer that returns a response changes, in
\* the ledger of the caller, at most the edge from the local DID to the
\* DID that this peer presented in its handshake, whatever the response
\* contains.
C36_SendIntentTouchesHandshakeDID ==
    [][\A sid \in DOMAIN streams :
          (/\ streams[sid].kind = "intent"
           /\ streams[sid].from \in Honest
           /\ streams[sid].ret = "pending" /\ streams'[sid].ret = "ok"
           /\ streams[sid].to \in DOMAIN known[streams[sid].from])
          => LET h == streams[sid].from
                 presented == known[h][streams[sid].to].DID
             IN ChangedEdges(trust[h], trust'[h])
                   \subseteq {trustKey(LocalAgent(h).DID, presented)}]_vars

-----------------------------------------------------------------------------
(* Claims about what an intent signature binds *)

\* C37: the signature of an intent binds the pair of its id and its
\* payload: a signature made for the intent with id i and payload p
\* verifies only in an intent whose id is i and whose payload is p.
C37_SignatureBindsIDAndPayload ==
    (/\ lastCall.op = "VerifyIntentSignature"
     /\ lastCall.m.Signature # <<>>
     /\ lastCall.m.Signature = lastCall.orig.Signature
     /\ lastCall.res)
    => /\ lastCall.m.ID = lastCall.orig.ID
       /\ lastCall.m.Payload = lastCall.orig.Payload

-----------------------------------------------------------------------------
(* Claims about the choice of the peer of a step *)

\* the transport peers that the cached-peers map of h gives for the agents
\* of its registry that are not expired and declare capability cap
ResolvablePeers(h, cap) ==
    UNION {resolvePeerID(h, id) :
              id \in {k \in DOMAIN discovery[h] :
                         /\ ~isExpired(discovery[h][k], now)
                         /\ hasAll(discovery[h][k].profile.Capabilities, <<cap>>)}}

\* C38: when the registry of the orchestrator holds a non-expired agent
\* with the capability of a step that the cached-peers map resolves, the
\* intent of the step is sent to such a peer: the step does not fail as
\* unresolvable because the candidate ranked first has no cached peer.
C38_StepSentToResolvablePeer ==
    [][\A idx \in DOMAIN stepGo :
          (/\ wfPc = "running"
           /\ stepGo[idx].pc = "spawned" /\ stepGo'[idx].pc # "spawned"
           /\ ResolvablePeers(Orchestrator, wfSteps[idx].Capability) # {}
           /\ ~(stepGo'[idx].err /\ stepGo'[idx].msg = <<"CreateIntent">>))
          => /\ stepGo'[idx].pc = "sent"
             /\ streams'[stepGo'[idx].sid].to
                   \in ResolvablePeers(Orchestrator, wfSteps[idx].Capability)]_vars

-----------------------------------------------------------------------------
(* Claims about permanent entries *)

\* the agents whose entry has the zero expiry
Permanent(reg) == {id \in DOMAIN reg : reg[id].expiresAt = ZeroTime}

\* the step removes the entry of id or announces a profile for id
RemovesOrAnnounces(id) ==
    \/ entries' = MapDel(entries, id)
    \/ \E p \in RegProfiles, ttl \in RegTTLs :
          p.AgentID = id /\ entries' = RegistryAnnounce(entries, now, p, ttl)

\* C39: an agent registered with TTL 0 stays in the registry, still
\* without expiry, for as long as Remove is not called for its agent_id; a
\* later announcement for the same agent_id does not make it expire.
C39_PermanentUntilRemoved ==
    [][\A id \in Permanent(entries) :
          \/ id \in Permanent(entries')
          \/ entries' = MapDel(entries, id)]_vars

\* C39 as amended: an agent registered with TTL 0 keeps its entry, at any
\* later time and through any Evict, for as long as neither Remove nor
\* Announce is called for its agent_id, and All and FindByCapability (for
\* tags it declares) return it; an announcement for the same agent_id
\* overwrites the entry, with the expiry of its own TTL.
C39_PermanentUntilRemovedOrAnnounced ==
    [][/\ \A id \in Permanent(entries) :
             \/ id \in DOMAIN entries' /\ entries'[id] = entries[id]
             \/ RemovesOrAnnounces(id)
       /\ \A id \in Permanent(entries) :
             (found' # found /\ UNCHANGED entries) =>
                /\ found'.op = "All" =>
                      \E i \in DOMAIN found'.res : found'.res[i] = entries[id].profile
                /\ (found'.op = "FindByCapability"
                      /\ hasAll(entries[id].profile.Capabilities, found'.req)) =>
                      \E i \in DOMAIN found'.res : found'.res[i] = entries[id].profile]_vars

\* C39 witness: at the last instant of the clock All returns the one
\* permanent entry and skips an expired entry that no Evict has removed
C39_Witness ==
    /\ found.op = "All" /\ found.at = MaxTime
    /\ Len(found.res) = 1 /\ found.exp = <<ZeroTime>>
    /\ Cardinality(DOMAIN entries) = 2
    /\ Cardinality(Permanent(entries)) = 1

-----------------------------------------------------------------------------
(* Claims about the agent_id of a registry entry *)

\* the handshake message m presents agent id under DID d with a public key
\* that hashes to d
PresentsBound(m, id, d) ==
    /\ m.AgentID = id /\ m.DID = d
    /\ ~ParseDID(d).err
    /\ ValidateBinding(ParseDID(d), m.PublicKey)

\* host h has completed a handshake in which agent id presented DID d
\* with a validated binding: as responder of a first message it answered,
\* or as initiator of a call of Handshake that returned the response
BoundBy(h, id, d) ==
    \E sid \in DOMAIN streams :
        LET st == streams[sid]
        IN \/ /\ st.to = h /\ st.req.type = MsgHandshake /\ st.req.ok
              /\ st.handled = "replied"
              /\ PresentsBound(DecodeHandshakeMessage(st.req.payload), id, d)
           \/ /\ st.from = h /\ st.kind = "handshake" /\ st.ret = "ok"
              /\ PresentsBound(DecodeHandshakeMessage(st.resp.payload), id, d)

\* C40: once the registry of a host holds for an agent_id an entry made by
\* a handshake that validated the binding of DID D, the agent_id maps in
\* every later state to no entry or to a profile whose DID is D: another
\* peer that claims the agent_id cannot replace the entry.
C40_AgentIDKeepsDID ==
    [][\A h \in Honest : \A id \in DOMAIN discovery[h] :
          LET d == discovery[h][id].profile.DID
          IN (BoundBy(h, id, d) /\ id \in DOMAIN discovery'[h])
                => discovery'[h][id].profile.DID = d]_vars

====
